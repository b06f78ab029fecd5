------------------------------ MODULE MemoryLog ------------------------------
(***************************************************************************)
(* How far a session's transcript has been captured: the state file of     *)
(* captureMemoryLog (internal/cmd/hook.go).  Pure operators; a transcript  *)
(* is the sequence of the tagged lines in it, and an offset counts them.   *)
(***************************************************************************)
EXTENDS Integers, Sequences, SequencesExt

NoPath == 0

\* What the file says of a session it does not name.
Nothing == [path |-> NoPath, offset |-> 0, seen |-> {}]

\* Mutant: a transcript cut short is not read again.
ResumeAt_Cut(st, path, transcript) == IF st.path # path THEN 0 ELSE st.offset

\* Another transcript, or one cut short, is read from its start.
ResumeAt(st, path, transcript) ==
  IF st.path # path \/ Len(transcript) < st.offset THEN 0 ELSE st.offset

\* Mutant: what has been recorded is forgotten with the offset.
LinesToNote_Offset(st, path, transcript) ==
  LET from == ResumeAt(st, path, transcript)
  IN  SubSeq(transcript, from + 1, Len(transcript))

\* The lines not recorded yet, in order, each once.
LinesToNote(st, path, transcript) ==
  LET from  == ResumeAt(st, path, transcript)
      lines == SubSeq(transcript, from + 1, Len(transcript))
      first(i) == lines[i] \notin st.seen /\ \A j \in 1 .. (i - 1) : lines[j] # lines[i]
  IN  [k \in 1 .. Cardinality({i \in DOMAIN lines : first(i)}) |->
         lines[CHOOSE i \in DOMAIN lines :
                 first(i) /\ Cardinality({j \in 1 .. i : first(j)}) = k]]

\* The session's entry once the transcript has been read.
CapturedTo(st, path, transcript) ==
  [path |-> path, offset |-> Len(transcript),
   seen |-> st.seen \union ToSet(LinesToNote(st, path, transcript))]

\* pruneMemoryLogState: of the other sessions, those whose transcript is there.
Pruned(state, current, there) ==
  [s \in DOMAIN state |->
     IF s = current \/ (state[s].path # NoPath /\ there[s]) THEN state[s] ELSE Nothing]

=============================================================================
