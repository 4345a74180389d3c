----------------------------- MODULE CopyProofs -----------------------------
(***************************************************************************)
(* What holds of CopyBidirectional for any mark and any number of chunks.  *)
(*                                                                         *)
(* The invariant is one statement about a direction: what its source has   *)
(* yielded, what is written to and flushed by its destination, and how the *)
(* pause, the drain and the ends depend on them.  The directions share     *)
(* nothing but the error, which settles both, and dropStream, which ends   *)
(* a destination itself only after an error, and destroys none before      *)
(* finish.                                                                 *)
(***************************************************************************)
EXTENDS CopyBidirectional, TLAPS

Types ==
  /\ sent \in [Side -> 0 .. MaxChunks] /\ eof \in [Side -> BOOLEAN]
  /\ got \in [Side -> Nat] /\ ended \in [Side -> BOOLEAN]
  /\ flowing \in [Side -> BOOLEAN]
  /\ wrote \in [Side -> Nat] /\ flushed \in [Side -> Nat]
  /\ needDrain \in [Side -> BOOLEAN]
  /\ fin \in [Side -> {"no", "ended", "finished"}] /\ dead \in [Side -> BOOLEAN]
  /\ settled \in [Side -> {"no", "ok", "err"}] /\ dropped \in BOOLEAN
  /\ lost \in SUBSET Side

\* Chunks are between the peer of the source and that of the destination; a
\* source that flows finds room, one that is paused waits for a drain to come.
Counts(x, y) ==
  /\ got[x] <= sent[x] /\ wrote[y] <= got[x] /\ flushed[y] <= wrote[y]
  /\ wrote[y] <= flushed[y] + HighWaterMark
  /\ settled[x] = "no" => wrote[y] = got[x]
  /\ settled[x] = "no" /\ flowing[x] => wrote[y] < flushed[y] + HighWaterMark
  /\ settled[x] = "no" /\ ~flowing[x] =>
       needDrain[y] /\ flushed[y] < wrote[y] /\ fin[y] = "no"

\* The write half of a destination ends after its source has, unless the copy
\* failed, and finishes when all is flushed; a direction that has settled well
\* has ended it or found it destroyed, so that dropStream has no half to end.
Ends(x, y) ==
  /\ ended[x] => eof[x] /\ got[x] = sent[x]
  /\ fin[y] # "no" /\ settled[x] # "err" => ended[x] /\ wrote[y] = got[x]
  /\ fin[y] = "finished" => flushed[y] = wrote[y]
  /\ settled[x] = "ok" => fin[y] # "no" \/ dead[y]
  /\ settled[x] = "err" => settled[y] # "no"
  /\ dropped => settled[x] # "no"
  /\ dead[y] /\ y \notin lost => fin[y] = "finished"

Direction(x) == Counts(x, Other(x)) /\ Ends(x, Other(x))
IInv == Types /\ \A x \in Side : Direction(x)

LEMMA Sides ==
  ASSUME NEW x \in Side
  PROVE  Other(x) \in Side /\ Other(x) # x /\ Other(Other(x)) = x /\ Side = {x, Other(x)}
  BY DEF Side, Other

\* What a direction reads, and what it does not share with the other one.
Same(x, y) ==
  /\ sent'[x] = sent[x] /\ eof'[x] = eof[x] /\ got'[x] = got[x]
  /\ ended'[x] = ended[x] /\ flowing'[x] = flowing[x]
  /\ wrote'[y] = wrote[y] /\ flushed'[y] = flushed[y]
  /\ needDrain'[y] = needDrain[y] /\ fin'[y] = fin[y]
  /\ dead'[y] = dead[y] /\ lost' = lost

LEMMA SameDirection ==
  ASSUME NEW x, NEW y, Counts(x, y), Ends(x, y), Same(x, y), dropped' = dropped,
         settled'[x] = settled[x], settled[y] # "no" => settled'[y] # "no"
  PROVE  Counts(x, y)' /\ Ends(x, y)'
  BY DEF Same, Counts, Ends

LEMMA SetFlag ==
  ASSUME NEW S, NEW f \in [S -> BOOLEAN], NEW x, NEW b \in BOOLEAN
  PROVE  [f EXCEPT ![x] = b] \in [S -> BOOLEAN]
  OBVIOUS

LEMMA Initial == Init => IInv
<1> SUFFICES ASSUME Init PROVE IInv
  OBVIOUS
<1>1. Types
  <2>1. PICK early \in SUBSET ({"framed"} \ lost) :
          /\ ended = [x \in Side |-> x \in early] /\ eof = ended
          /\ settled = [x \in Side |-> IF x \in early THEN "ok" ELSE "no"]
          /\ fin = [x \in Side |-> IF Other(x) \in early THEN "ended" ELSE "no"]
    BY DEF Init
  <2>2. ended \in [Side -> BOOLEAN] /\ eof \in [Side -> BOOLEAN] /\ dead \in [Side -> BOOLEAN]
    BY <2>1 DEF Init
  <2>3. settled \in [Side -> {"no", "ok", "err"}] /\ fin \in [Side -> {"no", "ended", "finished"}]
    BY <2>1
  <2>4. 0 \in 0 .. MaxChunks
    BY ChunksAssumption
  <2> QED
    BY <2>2, <2>3, <2>4 DEF Init, Types, Side
<1>2. ASSUME NEW x \in Side PROVE Direction(x)
  <2>1. Other(x) \in Side
    BY Sides
  <2>2. /\ got[x] = 0 /\ sent[x] = 0 /\ flowing[x] = TRUE /\ dropped = FALSE
        /\ wrote[Other(x)] = 0 /\ flushed[Other(x)] = 0
    BY <2>1 DEF Init
  <2>3. Counts(x, Other(x))
    BY <2>2, MarkAssumption DEF Counts
  <2>4. /\ ended[x] = eof[x] /\ settled[x] # "err"
        /\ fin[Other(x)] # "finished" /\ (fin[Other(x)] # "no" => ended[x])
        /\ (settled[x] = "ok" => fin[Other(x)] # "no")
        /\ (dead[Other(x)] => Other(x) \in lost)
    BY <2>1, Sides DEF Init
  <2> QED
    BY <2>2, <2>3, <2>4 DEF Direction, Ends
<1> QED
  BY <1>1, <1>2 DEF IInv

-----------------------------------------------------------------------------
(* One lemma for each group of actions. *)

\* When the promise has settled, both directions have.
LEMMA DecidedBoth == ASSUME IInv, Decided, NEW x \in Side PROVE settled[x] # "no"
<1>1. settled[Other(x)] = "err" => settled[x] # "no"
  BY Sides DEF IInv, Direction, Ends
<1> QED
  BY <1>1, Sides DEF Decided

LEMMA PeerStep ==
  ASSUME IInv, NEW x \in Side, PeerSends(x) \/ PeerEnds(x)
  PROVE  IInv'
<1>1. UNCHANGED <<readVars, writeVars, dead, settled, dropped, lost>>
  BY DEF PeerSends, PeerEnds
<1>2. /\ sent'[x] \in {sent[x], sent[x] + 1} /\ ~eof[x]
      /\ \A z \in Side \ {x} : sent'[z] = sent[z] /\ eof'[z] = eof[z]
  BY DEF PeerSends, PeerEnds, IInv, Types
<1>3. Types'
  <2>1. sent' \in [Side -> 0 .. MaxChunks]
    BY ChunksAssumption DEF PeerSends, PeerEnds, IInv, Types
  <2>2. eof' \in [Side -> BOOLEAN]
    BY DEF PeerSends, PeerEnds, IInv, Types
  <2> QED
    BY <1>1, <2>1, <2>2 DEF IInv, Types, readVars, writeVars
<1>4. Direction(x)'
  <2>1. Counts(x, Other(x)) /\ Ends(x, Other(x))
    BY DEF IInv, Direction
  <2>2. sent[x] \in Nat /\ got[x] \in Nat
    BY DEF IInv, Types
  <2> QED
    BY <1>1, <1>2, <2>1, <2>2 DEF Direction, Counts, Ends, readVars, writeVars
<1>5. Direction(Other(x))'
  <2>1. Same(Other(x), x)
    BY <1>1, <1>2, Sides DEF Same, readVars, writeVars
  <2>2. Counts(Other(x), x) /\ Ends(Other(x), x)
    BY Sides DEF IInv, Direction
  <2>3. Counts(Other(x), x)' /\ Ends(Other(x), x)'
    BY <1>1, <2>1, <2>2, SameDirection
  <2> QED
    BY <2>3, Sides DEF Direction
<1> QED
  BY <1>3, <1>4, <1>5, Sides DEF IInv

\* What is destroyed from outside settles directions, and does nothing else.
LEMMA LostStep ==
  ASSUME IInv, (\E x \in Side : PeerResets(x)) \/ Abort
  PROVE  IInv'
<1>1. UNCHANGED <<peerVars, readVars, writeVars, dropped>>
  BY DEF PeerResets, Abort
<1>2. ASSUME NEW x \in Side
      PROVE  /\ settled[x] # "no" => settled'[x] = settled[x]
             /\ settled'[x] = "err" /\ settled[x] = "no" => settled'[Other(x)] # "no"
  BY Sides DEF PeerResets, Abort, IInv, Types
<1>5. ASSUME NEW y \in Side
      PROVE  /\ dead[y] => dead'[y]
             /\ dead'[y] /\ y \notin lost' => dead[y] /\ y \notin lost
             /\ settled'[Other(y)] = "ok" /\ settled[Other(y)] = "no" => dead'[y]
  BY Sides DEF PeerResets, Abort, IInv, Types
<1>3. Types'
  <2>1. settled' \in [Side -> {"no", "ok", "err"}]
    BY DEF PeerResets, Abort, IInv, Types
  <2>2. dead' \in [Side -> BOOLEAN]
    BY DEF PeerResets, Abort, IInv, Types
  <2>3. lost' \in SUBSET Side
    BY DEF PeerResets, Abort, IInv, Types
  <2> QED
    BY <1>1, <2>1, <2>2, <2>3 DEF IInv, Types, peerVars, readVars, writeVars
<1>4. ASSUME NEW x \in Side PROVE Direction(x)'
  <2>1. Counts(x, Other(x)) /\ Ends(x, Other(x))
    BY DEF IInv, Direction
  <2>2. settled[Other(x)] # "no" => settled'[Other(x)] # "no"
    BY <1>2, Sides
  <2>3. /\ dead[Other(x)] => dead'[Other(x)]
        /\ dead'[Other(x)] /\ Other(x) \notin lost' => dead[Other(x)] /\ Other(x) \notin lost
        /\ settled'[x] = "ok" /\ settled[x] = "no" => dead'[Other(x)]
    BY <1>5, Sides
  <2> QED
    BY <1>1, <1>2, <2>1, <2>2, <2>3 DEF Direction, Counts, Ends, peerVars, readVars, writeVars
<1> QED
  BY <1>3, <1>4 DEF IInv

LEMMA DataStep ==
  ASSUME IInv, NEW x \in Side, Data(x)
  PROVE  IInv'
<1> DEFINE y == Other(x)
<1>0. y \in Side /\ y # x /\ Other(y) = x /\ Side = {x, y}
  BY Sides
<1>1. /\ UNCHANGED <<peerVars, ended, flushed, fin, dead, dropped, lost>>
      /\ flowing[x] /\ got[x] < sent[x] /\ got' = [got EXCEPT ![x] = @ + 1]
  BY DEF Data
<1>2. /\ got[x] \in Nat /\ sent[x] \in Nat /\ wrote[y] \in Nat /\ flushed[y] \in Nat
      /\ got'[x] = got[x] + 1 /\ got'[y] = got[y]
  BY <1>0, <1>1 DEF IInv, Types
<1>3. Counts(x, y) /\ Ends(x, y) /\ Counts(y, x) /\ Ends(y, x)
  BY <1>0 DEF IInv, Direction
<1>4. CASE settled[x] # "no"
  <2>1. UNCHANGED <<settled, wrote, flowing, needDrain>>
    BY <1>4 DEF Data
  <2>2. Types'
    BY <1>1, <2>1 DEF IInv, Types, peerVars
  <2>3. Counts(x, y)' /\ Ends(x, y)'
    BY <1>1, <1>2, <1>3, <1>4, <2>1 DEF Counts, Ends, peerVars
  <2>4. Counts(y, x)' /\ Ends(y, x)'
    BY <1>1, <1>2, <1>3, <2>1, SameDirection DEF Same, peerVars
  <2> QED
    BY <1>0, <2>2, <2>3, <2>4 DEF IInv, Direction
<1>5. CASE settled[x] = "no" /\ (fin[y] # "no" \/ dead[y])
  <2>1. settled' = [settled EXCEPT ![x] = "ok"] /\ UNCHANGED <<wrote, flowing, needDrain>>
    BY <1>5 DEF Data
  <2>2. Types'
    BY <1>1, <2>1 DEF IInv, Types, peerVars
  <2>3. settled'[x] = "ok" /\ settled'[y] = settled[y]
    BY <1>0, <2>1 DEF IInv, Types
  <2>4. Counts(x, y)' /\ Ends(x, y)'
    BY <1>1, <1>2, <1>3, <1>5, <2>1, <2>3 DEF Counts, Ends, peerVars
  <2>5. Counts(y, x)' /\ Ends(y, x)'
    BY <1>1, <1>2, <1>3, <2>1, <2>3, SameDirection DEF Same, peerVars
  <2> QED
    BY <1>0, <2>2, <2>4, <2>5 DEF IInv, Direction
<1>6. CASE settled[x] = "no" /\ fin[y] = "no" /\ ~dead[y]
  <2> DEFINE full == wrote[y] + 1 - flushed[y] >= HighWaterMark
  <2>1. /\ wrote' = [wrote EXCEPT ![y] = @ + 1]
        /\ flowing' = [flowing EXCEPT ![x] = ~full]
        /\ needDrain' = [needDrain EXCEPT ![y] = full] /\ settled' = settled
    BY <1>6 DEF Data
  <2>2. /\ wrote'[y] = wrote[y] + 1 /\ wrote'[x] = wrote[x]
        /\ flowing'[x] = ~full /\ flowing'[y] = flowing[y]
        /\ needDrain'[y] = full /\ needDrain'[x] = needDrain[x]
    BY <1>0, <2>1 DEF IInv, Types
  <2>3. Types'
    <3>1. got' \in [Side -> Nat] /\ wrote' \in [Side -> Nat]
      <4>1. got[x] + 1 \in Nat /\ wrote[y] + 1 \in Nat
        BY <1>2
      <4> QED
        BY <1>0, <1>1, <2>1, <4>1 DEF IInv, Types
    <3>2. full \in BOOLEAN
      BY <1>2, MarkAssumption
    <3> HIDE DEF full
    <3>4. (~full) \in BOOLEAN
      BY Zenon
    <3>5. flowing \in [Side -> BOOLEAN] /\ needDrain \in [Side -> BOOLEAN]
      BY DEF IInv, Types
    <3>3. flowing' \in [Side -> BOOLEAN] /\ needDrain' \in [Side -> BOOLEAN]
      BY <2>1, <3>2, <3>4, <3>5, SetFlag, Zenon
    <3> QED
      BY <1>1, <2>1, <3>1, <3>3 DEF IInv, Types, peerVars
  <2>4. Counts(x, y)'
    <3>1. /\ got'[x] <= sent'[x] /\ wrote'[y] <= got'[x] /\ flushed'[y] <= wrote'[y]
          /\ wrote'[y] <= flushed'[y] + HighWaterMark /\ wrote'[y] = got'[x]
      BY <1>1, <1>2, <1>3, <1>6, <2>2, MarkAssumption DEF Counts, peerVars
    <3>2. full \/ wrote'[y] < flushed'[y] + HighWaterMark
      BY <1>1, <1>2, <2>2, MarkAssumption
    <3>3. flushed'[y] < wrote'[y] /\ fin'[y] = "no"
      BY <1>1, <1>2, <1>3, <1>6, <2>2 DEF Counts
    <3>4. (flowing'[x] <=> ~full) /\ (needDrain'[y] <=> full)
      BY <2>2
    <3> HIDE DEF full
    <3> QED
      BY <3>1, <3>2, <3>3, <3>4 DEF Counts
  <2>5. Ends(x, y)'
    BY <1>1, <1>2, <1>3, <1>6, <2>1 DEF Ends, peerVars
  <2>6. Counts(y, x)' /\ Ends(y, x)'
    BY <1>1, <1>2, <1>3, <2>1, <2>2, SameDirection DEF Same, peerVars
  <2> QED
    BY <1>0, <2>3, <2>4, <2>5, <2>6 DEF IInv, Direction
<1> QED
  BY <1>4, <1>5, <1>6, <1>0 DEF IInv, Types

LEMMA EndStep ==
  ASSUME IInv, NEW x \in Side, End(x)
  PROVE  IInv'
<1> DEFINE y == Other(x)
<1>0. y \in Side /\ y # x /\ Other(y) = x /\ Side = {x, y}
  BY Sides
<1>1. /\ UNCHANGED <<peerVars, got, flowing, wrote, flushed, needDrain, dead, dropped, lost>>
      /\ flowing[x] /\ eof[x] /\ got[x] = sent[x] /\ ended' = [ended EXCEPT ![x] = TRUE]
  BY DEF End
<1>2. /\ ended'[x] = TRUE /\ ended'[y] = ended[y]
      /\ settled'[y] = settled[y] /\ settled'[x] # "no" /\ settled'[x] \in {settled[x], "ok"}
      /\ fin'[x] = fin[x] /\ fin'[y] \in {fin[y], "ended"}
      /\ fin'[y] # fin[y] => fin[y] = "no" /\ settled[x] = "no"
      /\ settled[x] = "no" => fin'[y] # "no" \/ dead[y]
      /\ settled[x] # "no" => settled'[x] = settled[x]
  BY <1>0, <1>1 DEF End, IInv, Types
<1>3. Counts(x, y) /\ Ends(x, y) /\ Counts(y, x) /\ Ends(y, x)
  BY <1>0 DEF IInv, Direction
<1>4. Types'
  BY <1>1 DEF End, IInv, Types, peerVars
<1>5. Counts(x, y)' /\ Ends(x, y)'
  BY <1>1, <1>2, <1>3 DEF Counts, Ends, peerVars
<1>6. Counts(y, x)' /\ Ends(y, x)'
  BY <1>1, <1>2, <1>3, SameDirection DEF Same, peerVars
<1> QED
  BY <1>0, <1>4, <1>5, <1>6 DEF IInv, Direction

LEMMA FlushStep ==
  ASSUME IInv, NEW y \in Side, Flush(y)
  PROVE  IInv'
<1> DEFINE x == Other(y)
           drain == flushed[y] + 1 = wrote[y] /\ needDrain[y] /\ fin[y] = "no"
<1>0. x \in Side /\ x # y /\ Other(x) = y /\ Side = {x, y}
  BY Sides
<1>1. /\ UNCHANGED <<peerVars, got, ended, wrote, fin, dead, settled, dropped, lost>>
      /\ flushed[y] < wrote[y] /\ flushed' = [flushed EXCEPT ![y] = @ + 1]
      /\ needDrain' = [needDrain EXCEPT ![y] = @ /\ ~drain]
      /\ flowing' = [flowing EXCEPT ![x] = @ \/ drain]
  BY DEF Flush
<1>2. /\ flushed'[y] = flushed[y] + 1 /\ flushed'[x] = flushed[x]
      /\ (needDrain'[y] <=> needDrain[y] /\ ~drain) /\ needDrain'[x] = needDrain[x]
      /\ (flowing'[x] <=> flowing[x] \/ drain) /\ flowing'[y] = flowing[y]
  BY <1>0, <1>1 DEF IInv, Types
<1>3. Counts(x, y) /\ Ends(x, y) /\ Counts(y, x) /\ Ends(y, x)
  BY <1>0 DEF IInv, Direction
<1>4. wrote[y] \in Nat /\ flushed[y] \in Nat
  BY DEF IInv, Types
<1>5. Types'
  <2>1. flushed' \in [Side -> Nat]
    BY <1>1 DEF IInv, Types
  <2>2. flowing' \in [Side -> BOOLEAN] /\ needDrain' \in [Side -> BOOLEAN]
    <3>1. drain \in BOOLEAN
      OBVIOUS
    <3> HIDE DEF drain
    <3> QED
      BY <1>0, <1>1, <3>1 DEF IInv, Types
  <2> QED
    BY <1>1, <2>1, <2>2 DEF IInv, Types, peerVars
<1>6. Counts(x, y)'
  BY <1>1, <1>2, <1>3, <1>4, MarkAssumption DEF Counts, peerVars
<1>7. Ends(x, y)'
  BY <1>1, <1>2, <1>3, <1>4 DEF Ends, peerVars
<1>8. Counts(y, x)' /\ Ends(y, x)'
  BY <1>1, <1>2, <1>3, SameDirection DEF Same, peerVars
<1> QED
  BY <1>0, <1>5, <1>6, <1>7, <1>8 DEF IInv, Direction

LEMMA FinishStep ==
  ASSUME IInv, NEW y \in Side, Finish(y)
  PROVE  IInv'
<1> DEFINE x == Other(y)
<1>0. x \in Side /\ x # y /\ Other(x) = y /\ Side = {x, y}
  BY Sides
<1>1. /\ UNCHANGED <<peerVars, readVars, wrote, flushed, needDrain, settled, dropped, lost>>
      /\ fin[y] = "ended" /\ flushed[y] = wrote[y] /\ fin' = [fin EXCEPT ![y] = "finished"]
      /\ ~dead[y] /\ dead' = [dead EXCEPT ![y] = dropped]
  BY DEF Finish
<1>2. fin'[y] = "finished" /\ fin'[x] = fin[x] /\ dead'[x] = dead[x]
  BY <1>0, <1>1 DEF IInv, Types
<1>3. Counts(x, y) /\ Ends(x, y) /\ Counts(y, x) /\ Ends(y, x)
  BY <1>0 DEF IInv, Direction
<1>4. Types'
  BY <1>1 DEF IInv, Types, peerVars, readVars
<1>5. Counts(x, y)' /\ Ends(x, y)'
  BY <1>1, <1>2, <1>3 DEF Counts, Ends, peerVars, readVars
<1>6. Counts(y, x)' /\ Ends(y, x)'
  BY <1>1, <1>2, <1>3, SameDirection DEF Same, peerVars, readVars
<1> QED
  BY <1>0, <1>4, <1>5, <1>6 DEF IInv, Direction

LEMMA DropStep == ASSUME IInv, Drop PROVE IInv'
<1>1. /\ Decided /\ dropped' = TRUE
      /\ UNCHANGED <<peerVars, readVars, wrote, flushed, needDrain, settled, lost>>
  BY DEF Drop
<1>2. Types'
  <2>1. dead' \in [Side -> BOOLEAN]
    BY DEF Drop, IInv, Types
  <2>2. fin' \in [Side -> {"no", "ended", "finished"}]
    BY DEF Drop, IInv, Types
  <2> QED
    BY <1>1, <2>1, <2>2 DEF IInv, Types, peerVars, readVars
<1>3. ASSUME NEW x \in Side PROVE Direction(x)'
  <2>1. settled[x] # "no"
    BY <1>1, DecidedBoth
  <2>2. Counts(x, Other(x)) /\ Ends(x, Other(x))
    BY DEF IInv, Direction
  <2>3. /\ dead'[Other(x)] = (dead[Other(x)] \/ fin[Other(x)] = "finished")
        /\ fin'[Other(x)] = IF ~dead[Other(x)] /\ fin[Other(x)] = "no"
                            THEN "ended" ELSE fin[Other(x)]
    <3>1. Other(x) \in Side
      BY Sides
    <3>2. dead' = [z \in Side |-> dead[z] \/ fin[z] = "finished"]
      BY DEF Drop
    <3>3. dead'[Other(x)] = (dead[Other(x)] \/ fin[Other(x)] = "finished")
      BY <3>1, <3>2, Zenon
    <3>4. fin'[Other(x)] = IF ~dead[Other(x)] /\ fin[Other(x)] = "no"
                           THEN "ended" ELSE fin[Other(x)]
      BY <3>1 DEF Drop
    <3> QED
      BY <3>3, <3>4
  <2>4. fin'[Other(x)] = fin[Other(x)] \/ (fin'[Other(x)] = "ended" /\ settled[x] = "err")
    BY <2>1, <2>2, <2>3 DEF Ends, IInv, Types
  <2> QED
    BY <1>1, <2>1, <2>2, <2>3, <2>4 DEF Direction, Counts, Ends, peerVars, readVars
<1> QED
  BY <1>2, <1>3 DEF IInv

LEMMA Inductive == IInv /\ [Next]_vars => IInv'
<1> SUFFICES ASSUME IInv, [Next]_vars PROVE IInv'
  OBVIOUS
<1>1. CASE UNCHANGED vars
  <2>1. Types'
    BY <1>1 DEF IInv, Types, vars, peerVars, readVars, writeVars
  <2>2. \A x \in Side : Direction(x)'
    BY <1>1 DEF IInv, Direction, Counts, Ends, vars, peerVars, readVars, writeVars
  <2> QED
    BY <2>1, <2>2 DEF IInv
<1> QED
  BY <1>1, PeerStep, LostStep, DataStep, EndStep, FlushStep, FinishStep, DropStep DEF Next

LEMMA Invariant == Spec => []IInv
  BY Initial, Inductive, PTL DEF Spec

-----------------------------------------------------------------------------
(* The theorems. *)

\* Backpressure: however slow a peer is, no more than the mark is buffered for
\* it.
THEOREM TypeCorrect == Spec => []TypeOK
<1>1. IInv => TypeOK
  <2> SUFFICES ASSUME IInv PROVE TypeOK
    OBVIOUS
  <2>1. Types
    BY DEF IInv
  <2>2. ASSUME NEW x \in Side
        PROVE  /\ got[x] \in 0 .. MaxChunks /\ wrote[x] \in 0 .. MaxChunks
               /\ flushed[x] \in 0 .. MaxChunks
               /\ wrote[x] \in flushed[x] .. flushed[x] + HighWaterMark
    <3>1. Counts(x, Other(x)) /\ Counts(Other(x), x)
      BY Sides DEF IInv, Direction
    <3>2. /\ got[x] \in Nat /\ wrote[x] \in Nat /\ flushed[x] \in Nat
          /\ sent[x] \in 0 .. MaxChunks
      BY <2>1 DEF Types
    <3>3. got[Other(x)] \in Nat /\ sent[Other(x)] \in 0 .. MaxChunks
      BY <2>1, Sides DEF Types
    <3> QED
      BY <3>1, <3>2, <3>3, ChunksAssumption, MarkAssumption DEF Counts
  <2> QED
    BY <2>1, <2>2 DEF Types, TypeOK
<1> QED
  BY <1>1, Invariant, PTL

\* A peer that is told the end of the stream has all of it, the direction that
\* ends last and the drop of both sockets included, unless a reset fails the
\* copy; and a socket that the code destroys has told its peer the end.
THEOREM CompleteCorrect == Spec => []Complete
<1>1. IInv => Complete
  BY DEF IInv, Direction, Counts, Ends, Complete
<1> QED
  BY <1>1, Invariant, PTL

\* Half-close: one direction may end long before the other.
THEOREM HalfOpenCorrect == Spec => []HalfOpen
<1>1. IInv => HalfOpen
  <2> SUFFICES ASSUME IInv, ~Decided, NEW x \in Side, fin[Other(x)] # "no" PROVE ended[x]
    BY DEF HalfOpen
  <2>1. settled[x] # "err"
    BY DEF Decided
  <2> QED
    BY <2>1 DEF IInv, Direction, Ends
<1> QED
  BY <1>1, Invariant, PTL

\* Neither direction can be paused for ever: there is a drain to come.
THEOREM NoStallCorrect == Spec => []NoStall
<1>1. IInv => NoStall
  BY DEF IInv, Direction, Counts, NoStall
<1> QED
  BY <1>1, Invariant, PTL
=============================================================================
