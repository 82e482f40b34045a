--------------------------- MODULE FinancialJournal ---------------------------
(***************************************************************************)
(* What the financial core promises about its two movement tables          *)
(* (FinancialEvent, FinancialAllocation), independently of how requests    *)
(* interleave: they are append-only journals, one request writes to them   *)
(* at most once, and what it writes appears in one step: one event, one    *)
(* allocation, or both halves of a reallocation.                           *)
(*                                                                         *)
(* FinancialCore, which runs the services statement by statement, is shown *)
(* to implement this module.                                               *)
(***************************************************************************)
EXTENDS Integers

CONSTANTS Requests, Lines, Types

VARIABLES events, allocations

journal == <<events, allocations>>

\* A row of either table, named after the request that inserted it.
Movement == [id: Requests, line: Lines, type: Types, amount: Int]

Movements(p, rows) == {m \in rows : m.id = p}

\* The two halves of a reallocation: what leaves one line enters another.
Halves(a, b) ==
    /\ a.line # b.line
    /\ a.amount = -b.amount
    /\ a.type = "REALLOCATION_DONE" /\ b.type = "REALLOCATION_DONE"

\* What one transaction may add to the event table.
Postable(p, rows) ==
    /\ rows \subseteq Movement
    /\ \A m \in rows : m.id = p
    /\ \/ \E m \in rows : rows = {m}
       \/ \E a, b \in rows : rows = {a, b} /\ Halves(a, b)

JInit == events = {} /\ allocations = {}

Post(p) ==
    /\ Movements(p, events) = {} /\ Movements(p, allocations) = {}
    /\ \/ /\ allocations' = allocations
          /\ events \subseteq events'
          /\ Postable(p, events' \ events)
       \/ /\ events' = events
          /\ allocations \subseteq allocations'
          /\ \E m \in allocations' :
                m \in Movement /\ m.id = p /\ allocations' \ allocations = {m}

JNext == \E p \in Requests : Post(p)

JSpec == JInit /\ [][JNext]_journal
===============================================================================
