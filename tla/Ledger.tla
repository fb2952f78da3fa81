------------------------------- MODULE Ledger -------------------------------
(***************************************************************************)
(* What the Headquarters economy store promises to the code that spends    *)
(* from it, independent of files, caches, processes and locks: a request   *)
(* is identified by its receipt key, its effect enters the ledger at most  *)
(* once and never leaves it, and a caller is told "done" only of a request *)
(* whose effect is in the ledger.                                          *)
(***************************************************************************)
EXTENDS Naturals

CONSTANT Request   \* every receipt key, one-time migrations included

VARIABLES applied, \* the requests whose effect is in the ledger
          paid,    \* how often each request's effect was applied
          acked    \* the requests some caller was told are done

ledgerVars == <<applied, paid, acked>>

LedgerInit ==
    /\ applied \in SUBSET Request
    /\ paid = [r \in Request |-> IF r \in applied THEN 1 ELSE 0]
    /\ acked = {}

\* One durable commit may carry a request together with pending migrations.
Apply(new) ==
    /\ new \cap applied = {}
    /\ applied' = applied \union new
    /\ paid' = [r \in Request |-> IF r \in new THEN paid[r] + 1 ELSE paid[r]]
    /\ UNCHANGED acked

Acknowledge(r) ==
    /\ r \in applied
    /\ acked' = acked \union {r}
    /\ UNCHANGED <<applied, paid>>

LedgerNext ==
    \/ \E new \in SUBSET Request : Apply(new)
    \/ \E r \in Request : Acknowledge(r)

LedgerSpec == LedgerInit /\ [][LedgerNext]_ledgerVars

=============================================================================
