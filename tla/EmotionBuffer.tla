--------------------------- MODULE EmotionBuffer ---------------------------
(***************************************************************************)
(* Batch emotion analysis for one user and bot (emotion_tracker.go): the   *)
(* read loop of every connection appends its message to a shared buffer;   *)
(* the one that meets the threshold takes the buffer, clears it and starts *)
(* an analysis.  Append, Get and Clear each hold the store's lock, but not *)
(* together.                                                               *)
(***************************************************************************)
EXTENDS Integers, Sequences, FiniteSets

CONSTANTS
  Handlers,   \* read loops of the user's connections
  Threshold,  \* emotionBufferThreshold, 5
  MaxMessages \* bound on the messages appended

ASSUME EmotionAssumption ==
  /\ IsFiniteSet(Handlers)
  /\ Threshold \in Nat \ {0}
  /\ MaxMessages \in Nat

VARIABLES
  appended, \* messages passed to AppendEmotionBuffer; they are 1 .. appended
  buffer,   \* emotionBuffers[user, bot]
  reading,  \* per handler: idle, full (count met), grabbed (Get done)
  batch,    \* per handler: what Get returned
  started,  \* batches handed to runEmotionAnalysis, in order
  running,  \* indices into started whose LLM call has not returned
  context   \* emotionCtxs: index of the batch it describes, 0 if none

emotionVars == <<appended, buffer, reading, batch, started, running, context>>

EmotionInit ==
  /\ appended = 0
  /\ buffer = <<>>
  /\ reading = [h \in Handlers |-> "idle"]
  /\ batch = [h \in Handlers |-> <<>>]
  /\ started = <<>>
  /\ running = {}
  /\ context = 0

(* Fault: the buffer is taken only when it has exactly Threshold entries.  *)
AppendBufferExact(h) ==
  /\ reading[h] = "idle"
  /\ appended < MaxMessages
  /\ appended' = appended + 1
  /\ buffer' = Append(buffer, appended + 1)
  /\ reading' = [reading EXCEPT ![h] =
                  IF Len(buffer) + 1 = Threshold THEN "full" ELSE "idle"]
  /\ UNCHANGED <<batch, started, running, context>>

(* AppendEmotionBuffer returns the new length.                             *)
AppendBuffer(h) ==
  /\ reading[h] = "idle"
  /\ appended < MaxMessages
  /\ appended' = appended + 1
  /\ buffer' = Append(buffer, appended + 1)
  /\ reading' = [reading EXCEPT ![h] =
                  IF Len(buffer) + 1 < Threshold THEN "idle" ELSE "full"]
  /\ UNCHANGED <<batch, started, running, context>>

GetBuffer(h) ==
  /\ reading[h] = "full"
  /\ batch' = [batch EXCEPT ![h] = buffer]
  /\ reading' = [reading EXCEPT ![h] = "grabbed"]
  /\ UNCHANGED <<appended, buffer, started, running, context>>

(* Fault: the buffer is not cleared.                                       *)
KeepBuffer(h) ==
  /\ reading[h] = "grabbed"
  /\ started' = Append(started, batch[h])
  /\ running' = running \cup {Len(started) + 1}
  /\ reading' = [reading EXCEPT ![h] = "idle"]
  /\ UNCHANGED <<appended, buffer, batch, context>>

(* ClearEmotionBuffer drops whatever is there now, then the analysis is    *)
(* started.                                                                *)
ClearBuffer(h) ==
  /\ reading[h] = "grabbed"
  /\ buffer' = <<>>
  /\ started' = Append(started, batch[h])
  /\ running' = running \cup {Len(started) + 1}
  /\ reading' = [reading EXCEPT ![h] = "idle"]
  /\ UNCHANGED <<appended, batch, context>>

(* runEmotionAnalysis: the LLM call fails or is cut at 15 s, or its result *)
(* replaces the context.                                                   *)
Analyze(n) ==
  /\ n \in running
  /\ running' = running \ {n}
  /\ context' \in {context, n}
  /\ UNCHANGED <<appended, buffer, reading, batch, started>>

EmotionNext ==
  \/ \E h \in Handlers : AppendBuffer(h) \/ GetBuffer(h) \/ ClearBuffer(h)
  \/ \E n \in running : Analyze(n)

EmotionSpec == EmotionInit /\ [][EmotionNext]_emotionVars

(* A handler that met the threshold goes on; an analysis ends by timeout.  *)
FairEmotionSpec ==
  /\ EmotionSpec
  /\ \A h \in Handlers : WF_emotionVars(GetBuffer(h) \/ ClearBuffer(h))
  /\ \A n \in 1 .. MaxMessages : WF_emotionVars(Analyze(n))

-----------------------------------------------------------------------------
(* Properties.                                                             *)

Taking == {h \in Handlers : reading[h] # "idle"}

(* The variables have their types.  With several connections racing        *)
(* between Append, Get and Clear, a buffer at the threshold has a handler  *)
(* that will clear it, and grows past it by at most one message of each    *)
(* other handler.                                                          *)
EmotionTypeOK ==
  /\ appended \in 0 .. MaxMessages
  /\ buffer \in Seq(1 .. appended)
  /\ reading \in [Handlers -> {"idle", "full", "grabbed"}]
  /\ batch \in [Handlers -> Seq(1 .. appended)]
  /\ started \in Seq(Seq(1 .. appended))
  /\ running \subseteq 1 .. Len(started)
  /\ context \in 0 .. Len(started)
  /\ Len(buffer) >= Threshold => Taking # {}
  /\ Len(buffer) <= Threshold - 1 + Cardinality(Taking)

(* The buffer always comes back below the threshold.                       *)
BufferDrains == []<>(Len(buffer) < Threshold)
=============================================================================
