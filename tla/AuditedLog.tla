------------------------------ MODULE AuditedLog ------------------------------
(***************************************************************************)
(* What the write path of a case promises, without its transactions, locks *)
(* and retries: every call takes effect at most once, as one entry at the  *)
(* end of a log that only grows; an idempotency key has at most one entry; *)
(* and a caller is told only of an entry that is there, its own or the one *)
(* its key named before.                                                   *)
(*                                                                         *)
(* Module CaseMutate implements this specification.                        *)
(***************************************************************************)
EXTENDS Integers, Sequences

CONSTANTS Calls, Keys, NoKey

VARIABLES log,   \* Seq([call : Calls, key : Keys \cup {NoKey}])
          told   \* pairs <<c, d>>: call c succeeded, with the result of call d

logVars == <<log, told>>

Logged(c) == \E i \in 1..Len(log) : log[i].call = c

Used(k) == k # NoKey /\ \E i \in 1..Len(log) : log[i].key = k

LogInit == log = <<>> /\ told = {}

Effect(c, k) ==
    /\ ~Logged(c)
    /\ ~Used(k)
    /\ log' = Append(log, [call |-> c, key |-> k])
    /\ UNCHANGED told

Tell(c, d, k) ==
    /\ \E i \in 1..Len(log) : log[i] = [call |-> d, key |-> k]
    /\ c = d \/ k # NoKey
    /\ told' = told \cup {<<c, d>>}
    /\ UNCHANGED log

LogNext ==
    \E c, d \in Calls, k \in Keys \cup {NoKey} : Effect(c, k) \/ Tell(c, d, k)

LogSpec == LogInit /\ [][LogNext]_logVars
=============================================================================
