--------------------------- MODULE ScorecardGather --------------------------
(***************************************************************************)
(* Gathering the output of one scorecard test (internal/scorecard/         *)
(* storage.go): tar runs in the pod's sidecar, its stdout and stderr come  *)
(* back as two streams that StreamWithContext copies into two io.Pipes,    *)
(* and gatherTestOutput reads the first pipe as an archive and then the    *)
(* second to its end.  A pipe has no buffer: the copy of a stream stops    *)
(* while nobody reads its pipe, and tar stops when what lies in between    *)
(* is full.                                                                *)
(*                                                                         *)
(* The unit of stdout is an entry of the archive, then its end mark, then  *)
(* any padding; the unit of stderr is a message.                           *)
(***************************************************************************)
EXTENDS Naturals

CONSTANTS
    Entries,      \* entries of the archive
    MaxPadding,   \* bound: padding after the end mark
    MaxMessages,  \* bound: messages of tar
    OutCap,       \* what the network holds of stdout, in units
    ErrCap,       \* and of stderr
    MaxFaults     \* bound: broken connections

ASSUME SizesAssumption == Entries \in Nat /\ MaxPadding \in Nat /\ MaxMessages \in Nat
ASSUME CapsAssumption == OutCap \in Nat \ {0} /\ ErrCap \in Nat \ {0}
ASSUME FaultsAssumption == MaxFaults \in Nat

VARIABLES
    padding,    \* units this tar pads the archive with
    messages,   \* messages this tar writes
    outLeft,    \* units tar has still to write to stdout
    errLeft,    \* messages tar has still to write
    outStream,  \* units written and not yet read
    errStream,  \* messages written and not yet read
    streaming,  \* has StreamWithContext not returned?
    reader,     \* where gatherTestOutput stands
    entries,    \* units of the archive it has read
    stderr,     \* messages it has read
    faults      \* broken connections so far

vars == <<padding, messages, outLeft, errLeft, outStream, errStream, streaming,
          reader, entries, stderr, faults>>

Archive == Entries + 1  \* the entries and the end mark

TypeOK ==
    /\ padding \in 0 .. MaxPadding /\ messages \in 0 .. MaxMessages
    /\ outLeft \in 0 .. Archive + padding /\ errLeft \in 0 .. messages
    /\ outStream \in 0 .. OutCap /\ errStream \in 0 .. ErrCap
    /\ streaming \in BOOLEAN
    /\ reader \in {"untar", "stderr", "gathered", "failed"}
    /\ entries \in 0 .. Archive /\ stderr \in 0 .. messages
    /\ faults \in 0 .. MaxFaults
    \* nothing is made up, and nothing lost while the connection holds
    /\ entries + outStream + outLeft <= Archive + padding
    /\ stderr + errStream + errLeft <= messages
    /\ faults = 0 =>
          /\ entries + outStream + outLeft = Archive + padding
          /\ stderr + errStream + errLeft = messages

Init ==
    /\ padding \in 0 .. MaxPadding /\ messages \in 0 .. MaxMessages
    /\ outLeft = Archive + padding /\ errLeft = messages
    /\ outStream = 0 /\ errStream = 0
    /\ streaming = TRUE
    /\ reader = "untar" /\ entries = 0 /\ stderr = 0
    /\ faults = 0

----------------------------------------------------------------------------
(* tar and the connection                                                  *)

\* tar writes its messages while it works through the entries.
TarWritesOut ==
    /\ streaming /\ outLeft > 0 /\ outStream < OutCap
    /\ outLeft > padding + 1 \/ errLeft = 0
    /\ outLeft' = outLeft - 1 /\ outStream' = outStream + 1
    /\ UNCHANGED <<padding, messages, errLeft, errStream, streaming, reader,
                   entries, stderr, faults>>

TarWritesErr ==
    /\ streaming /\ errLeft > 0 /\ errStream < ErrCap
    /\ errLeft' = errLeft - 1 /\ errStream' = errStream + 1
    /\ UNCHANGED <<padding, messages, outLeft, outStream, streaming, reader,
                   entries, stderr, faults>>

\* tar has exited and both copies are done: the writers are closed.
StreamReturns ==
    /\ streaming /\ outLeft = 0 /\ errLeft = 0 /\ outStream = 0 /\ errStream = 0
    /\ streaming' = FALSE
    /\ UNCHANGED <<padding, messages, outLeft, errLeft, outStream, errStream,
                   reader, entries, stderr, faults>>

\* The connection breaks: what has not been read is lost, the error is logged
\* and the writers are closed.
StreamFails ==
    /\ streaming /\ faults < MaxFaults
    /\ faults' = faults + 1
    /\ streaming' = FALSE
    /\ outStream' = 0 /\ errStream' = 0
    /\ UNCHANGED <<padding, messages, outLeft, errLeft, reader, entries, stderr>>

----------------------------------------------------------------------------
(* gatherTestOutput                                                        *)

\* Mutant of Untar: the reader stops at the last entry, before the end mark.
UntarStopsShort ==
    /\ reader = "untar" /\ outStream > 0
    /\ outStream' = outStream - 1
    /\ entries' = entries + 1
    /\ reader' = IF entries' >= Entries THEN "stderr" ELSE "untar"
    /\ UNCHANGED <<padding, messages, outLeft, errLeft, errStream, streaming,
                   stderr, faults>>

\* untarAll reads up to the end mark and not beyond.
Untar ==
    /\ reader = "untar" /\ outStream > 0
    /\ outStream' = outStream - 1
    /\ entries' = entries + 1
    /\ reader' = IF entries' = Archive THEN "stderr" ELSE "untar"
    /\ UNCHANGED <<padding, messages, outLeft, errLeft, errStream, streaming,
                   stderr, faults>>

\* The stream ends before the archive does: between two entries that passes
\* for the end of the archive, within one it is an error.
UntarCutOff ==
    /\ reader = "untar" /\ outStream = 0 /\ ~streaming
    /\ reader' \in {"stderr", "failed"}
    /\ UNCHANGED <<padding, messages, outLeft, errLeft, outStream, errStream,
                   streaming, entries, stderr, faults>>

\* A corrupted archive or a file that cannot be created.
UntarFails ==
    /\ reader = "untar" /\ outStream > 0 /\ faults < MaxFaults
    /\ faults' = faults + 1
    /\ reader' = "failed"
    /\ UNCHANGED <<padding, messages, outLeft, errLeft, outStream, errStream,
                   streaming, entries, stderr>>

\* Mutant of ReadStderr: the first message is taken for all of stderr.
ReadStderrOnce ==
    /\ reader = "stderr" /\ errStream > 0
    /\ errStream' = errStream - 1
    /\ stderr' = stderr + 1
    /\ reader' = "gathered"
    /\ UNCHANGED <<padding, messages, outLeft, errLeft, outStream, streaming,
                   entries, faults>>

ReadStderr ==
    /\ reader = "stderr" /\ errStream > 0
    /\ errStream' = errStream - 1
    /\ stderr' = stderr + 1
    /\ UNCHANGED <<padding, messages, outLeft, errLeft, outStream, streaming,
                   reader, entries, faults>>

StderrEnds ==
    /\ reader = "stderr" /\ errStream = 0 /\ ~streaming
    /\ reader' = "gathered"
    /\ UNCHANGED <<padding, messages, outLeft, errLeft, outStream, errStream,
                   streaming, entries, stderr, faults>>

Stream == TarWritesOut \/ TarWritesErr \/ StreamReturns
Reader == Untar \/ UntarCutOff \/ UntarFails \/ ReadStderr \/ StderrEnds

Next == Stream \/ StreamFails \/ Reader
Spec == Init /\ [][Next]_vars

\* tar, the connection and the reader go on while they can.
FairSpec == Spec /\ WF_vars(Stream) /\ WF_vars(Reader)

----------------------------------------------------------------------------
(* Properties                                                              *)

\* The whole archive and every message are gathered unless the connection or
\* a file failed, though the streams are read one after the other.
GatheredInFull ==
    reader = "gathered" /\ faults = 0 => entries = Archive /\ stderr = messages

\* The gathering ends if nothing follows the archive's end mark and tar's
\* messages fit into what lies between it and the reader of stdout.
Fits == padding = 0 /\ messages <= ErrCap
GatheringEnds == Fits ~> reader \in {"gathered", "failed"}

\* It ends only then: otherwise stdout's rest or stderr's messages block tar,
\* which the reader waits for.
OnlyIfFits == reader = "gathered" /\ faults = 0 => Fits

\* What the two ends know of each other while nothing has failed: the end mark
\* comes after the messages, and the reader turns to stderr after the end mark.
GatherInv ==
    /\ TypeOK
    /\ reader = "untar" => entries < Archive
    /\ faults = 0 =>
          /\ outLeft <= padding => errLeft = 0
          /\ reader = "untar" => stderr = 0
          /\ reader \in {"stderr", "gathered"} => entries = Archive /\ messages <= ErrCap
          /\ reader = "gathered" => ~streaming
          /\ ~streaming => outLeft = 0 /\ errLeft = 0 /\ outStream = 0 /\ errStream = 0
          /\ reader # "failed"

\* Not satisfied: output that was gathered is complete. A connection broken
\* between two entries looks like the end (storage.go:76).
NothingMissing == reader = "gathered" => entries >= Entries
=============================================================================
