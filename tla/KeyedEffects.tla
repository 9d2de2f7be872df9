----------------------------- MODULE KeyedEffects -----------------------------
(***************************************************************************)
(* What the operations of a case promise who take an idempotency key, with *)
(* none of their transactions, staging, replays and crashes: a call takes  *)
(* effect at most once and in one step, a key has at most one effect, an   *)
(* effect is never withdrawn, and a caller is told once, of an effect that *)
(* is there and is what the caller asked for: its own, or with a key that  *)
(* of another call.  A process that dies forgets what it was told.         *)
(*                                                                         *)
(* Modules CaseMutate, Delivery and SourceTrees implement it.              *)
(***************************************************************************)
CONSTANTS NoKey

VARIABLES effects,  \* records of calls: [call, key, asked]
          told      \* pairs <<c, e>>: call c was told of e

keyedVars == <<effects, told>>

KeyedInit == effects = {} /\ told = {}

Fresh(e) == \A f \in effects : e.call # f.call /\ (e.key = NoKey \/ e.key # f.key)

TakeEffect == \E e \in effects' : Fresh(e) /\ effects' = effects \cup {e}

MayBeTold(c, e) ==
    /\ e \in effects'
    /\ e.call = c \/ e.key # NoKey
    /\ \A t \in told : t[1] # c

Tell == \E t \in told' : MayBeTold(t[1], t[2]) /\ told' = told \cup {t}

\* The caller may learn of an effect in the step that it is taken in.
KeyedNext ==
    /\ UNCHANGED effects \/ TakeEffect
    /\ told' \subseteq told \/ Tell

KeyedSpec == KeyedInit /\ [][KeyedNext]_keyedVars
=============================================================================
