------------------------ MODULE ScorecardGatherProofs -----------------------
(***************************************************************************)
(* Proofs about ScorecardGather, for archives, messages and buffers of any *)
(* size: the counts of GatherInv are inductive.                            *)
(***************************************************************************)
EXTENDS ScorecardGather, TLAPS

LEMMA InitGatherInv == Init => GatherInv
BY SizesAssumption, CapsAssumption, FaultsAssumption
   DEF Init, GatherInv, TypeOK, Archive

LEMMA StepGatherInv == GatherInv /\ [Next]_vars => GatherInv'
<1> USE SizesAssumption, CapsAssumption, FaultsAssumption DEF GatherInv, TypeOK, Archive
<1> SUFFICES ASSUME GatherInv, [Next]_vars PROVE GatherInv'
  OBVIOUS
<1>1. CASE TarWritesOut
  BY <1>1 DEF TarWritesOut
<1>2. CASE TarWritesErr
  BY <1>2 DEF TarWritesErr
<1>3. CASE StreamReturns
  BY <1>3 DEF StreamReturns
<1>4. CASE StreamFails
  <2>1. faults' # 0 /\ faults' \in 0 .. MaxFaults
    BY <1>4 DEF StreamFails
  <2>2. /\ padding' = padding /\ messages' = messages
        /\ outLeft' = outLeft /\ errLeft' = errLeft
        /\ reader' = reader /\ entries' = entries /\ stderr' = stderr
        /\ outStream' = 0 /\ errStream' = 0 /\ streaming' = FALSE
    BY <1>4 DEF StreamFails
  <2>3. outStream' \in 0 .. OutCap /\ errStream' \in 0 .. ErrCap
    BY <2>2
  <2>4. /\ entries' + outStream' + outLeft' <= Archive' + padding'
        /\ stderr' + errStream' + errLeft' <= messages'
    BY <2>2
  <2>5. /\ padding' \in 0 .. MaxPadding /\ messages' \in 0 .. MaxMessages
        /\ outLeft' \in 0 .. Archive' + padding' /\ errLeft' \in 0 .. messages'
        /\ reader' \in {"untar", "stderr", "gathered", "failed"}
        /\ entries' \in 0 .. Archive' /\ stderr' \in 0 .. messages'
        /\ reader' = "untar" => entries' < Archive'
    BY <2>2
  <2>6. streaming' \in BOOLEAN
    BY <2>2, Zenon
  <2>7. QED
    BY <2>1, <2>3, <2>4, <2>5, <2>6
<1>5. CASE Untar
  BY <1>5 DEF Untar
<1>6. CASE UntarCutOff
  BY <1>6 DEF UntarCutOff
<1>7. CASE UntarFails
  BY <1>7 DEF UntarFails
<1>8. CASE ReadStderr
  BY <1>8 DEF ReadStderr
<1>9. CASE StderrEnds
  BY <1>9 DEF StderrEnds
<1>10. CASE UNCHANGED vars
  BY <1>10 DEF vars
<1>11. QED
  BY <1>1, <1>2, <1>3, <1>4, <1>5, <1>6, <1>7, <1>8, <1>9, <1>10
     DEF Next, Stream, Reader

\* In every reachable state nothing is lost between tar and the reader unless
\* the connection broke, and the reader is where the end mark puts it.
THEOREM NothingLost == Spec => []GatherInv
BY InitGatherInv, StepGatherInv, PTL DEF Spec

\* What is gathered without a failure is the whole archive and every message.
THEOREM Complete == Spec => []GatheredInFull
<1>1. GatherInv => GatheredInFull
  BY SizesAssumption DEF GatherInv, TypeOK, Archive, GatheredInFull
<1>2. QED
  BY <1>1, NothingLost, PTL

\* Gathering never ends without a failure when the archive is padded or tar's
\* messages do not fit: such a test blocks its run.
THEOREM BlockedOtherwise == Spec => []OnlyIfFits
<1>1. GatherInv => OnlyIfFits
  BY SizesAssumption DEF GatherInv, TypeOK, Archive, OnlyIfFits, Fits
<1>2. QED
  BY <1>1, NothingLost, PTL
=============================================================================
