------------------------------ MODULE Streams ------------------------------
(***************************************************************************)
(* The output of a check or an orchestrator run, on its way from the      *)
(* running process to the log on the screen (tui/checkrun.go,             *)
(* tui/orchestrator.go). The process writes lines into a channel that     *)
(* never makes it wait: what does not fit is dropped and counted. The     *)
(* screen asks for one message at a time with a command (next), and asks  *)
(* for the next one when it handles the one before; the end of the run is *)
(* the message after the last line. A message that reaches a screen that  *)
(* does not expect it breaks that chain.                                  *)
(***************************************************************************)
EXTENDS Naturals

CONSTANTS
    LineCap,    \* lines the channel holds (liveLines)
    MaxLines    \* bound: lines one run writes

ASSUME StreamBounds == LineCap \in Nat \ {0} /\ MaxLines \in Nat

\* Whether anything waits for the run's next message, and where that message is.
Chains == {"none", "waiting", "sent", "lost"}

\* What became of a check: stopped with esc before its tool was done, it, or
\* recording it, failed, or it was recorded.
Outcomes == {"none", "cancelled", "failed", "recorded"}

\* on: the screen holds the run as running; open: the process may still write;
\* told: the lines its end said were not shown.
Streams == [on : BOOLEAN, open : BOOLEAN, held : 0..LineCap,
            dropped : 0..MaxLines, written : 0..MaxLines, shown : 0..MaxLines,
            told : 0..MaxLines, outcome : Outcomes, chain : Chains]

NoStream == [on |-> FALSE, open |-> FALSE, held |-> 0, dropped |-> 0,
             written |-> 0, shown |-> 0, told |-> 0, outcome |-> "none",
             chain |-> "none"]

\* A run just started: its first next is waiting.
Started == [NoStream EXCEPT !.on = TRUE, !.open = TRUE, !.chain = "waiting"]

MayWrite(s) == s.open /\ s.written < MaxLines

\* lineWriter.send: a line that does not fit is counted, never waited for.
Send(s) ==
    IF s.held < LineCap
    THEN [s EXCEPT !.written = @ + 1, !.held = @ + 1]
    ELSE [s EXCEPT !.written = @ + 1, !.dropped = @ + 1]

\* The process has ended and the channel is closed; what it holds is still read.
Close(s, outcome) == [s EXCEPT !.open = FALSE, !.outcome = outcome]

\* next as it would be if it took the end as soon as there is one.
NextEnd_Early(s) == s.chain = "waiting" /\ ~s.open

\* What next returns once it can: a line, or the end once the output is drained.
NextLine(s) == s.chain = "waiting" /\ s.held > 0
NextEnd(s)  == s.chain = "waiting" /\ s.held = 0 /\ ~s.open

TakeLine(s) == [s EXCEPT !.held = @ - 1, !.chain = "sent"]
TakeEnd(s)  == [s EXCEPT !.chain = "sent"]

\* The screen the run belongs to shows a line and asks for the next message.
ShowLine(s) == [s EXCEPT !.shown = @ + 1, !.chain = "waiting"]

\* The message went to a screen that drops it: nothing asks for the next one.
Unheard(s) == [s EXCEPT !.chain = "lost"]

\* The screen lets the run go; the end says how many lines were not shown.
LetGo(s, told) == [NoStream EXCEPT !.told = told]

\* Every line the process wrote was shown or dropped: none is left on the way.
Accounted(s) == s.written = s.shown + s.dropped
=============================================================================
