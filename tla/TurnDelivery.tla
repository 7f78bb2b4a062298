---------------------------- MODULE TurnDelivery ----------------------------
(***************************************************************************)
(* What the chat pipeline promises, without connections, buffers, timers   *)
(* or queues: a message the user sends waits until the bot takes it into a *)
(* turn of its conversation; a conversation has one turn at a time; a      *)
(* message is taken into one turn only.                                    *)
(***************************************************************************)
EXTENDS Integers, Sequences, FiniteSets

CONSTANTS Convs, MaxAggregate

VARIABLES
  posted,   \* conversation of each message sent, in order
  taken,    \* messages of the turn under way in each conversation
  settled,  \* messages of the turns that ended
  dropped   \* messages given up

dvars == <<posted, taken, settled, dropped>>

Waiting ==
  {m \in 1 .. Len(posted) : /\ m \notin settled /\ m \notin dropped
                            /\ \A k \in Convs : m \notin taken[k]}

DInit ==
  /\ posted = <<>>
  /\ taken = [k \in Convs |-> {}]
  /\ settled = {}
  /\ dropped = {}

Post(k) ==
  /\ posted' = Append(posted, k)
  /\ UNCHANGED <<taken, settled, dropped>>

Begin(k) ==
  /\ taken[k] = {}
  /\ \E S \in SUBSET {m \in Waiting : posted[m] = k} :
       /\ S # {} /\ Cardinality(S) <= MaxAggregate
       /\ taken' = [taken EXCEPT ![k] = S]
  /\ UNCHANGED <<posted, settled, dropped>>

End(k) ==
  /\ taken[k] # {}
  /\ settled' = settled \cup taken[k]
  /\ taken' = [taken EXCEPT ![k] = {}]
  /\ UNCHANGED <<posted, dropped>>

(* The process is restarted: what was not settled will never be.           *)
GiveUp ==
  /\ dropped' = 1 .. Len(posted) \ settled
  /\ taken' = [k \in Convs |-> {}]
  /\ UNCHANGED <<posted, settled>>

DNext == GiveUp \/ \E k \in Convs : Post(k) \/ Begin(k) \/ End(k)

DSpec == DInit /\ [][DNext]_dvars
=============================================================================
