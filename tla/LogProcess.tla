----------------------------- MODULE LogProcess -----------------------------
(***************************************************************************)
(* isaac_common_py/subprocess_utils.py: run_command starts a command and   *)
(* copies what it writes to the screen, a log file and a list of lines.    *)
(* The command and the copying loop run concurrently; between them are the *)
(* pipe, which select looks at, and the text buffer of process.stdout,     *)
(* which readline fills from the pipe.                                     *)
(*                                                                         *)
(* What is written is a sequence of pieces of text and of newlines.        *)
(***************************************************************************)
EXTENDS Naturals, Sequences, FiniteSets, SequencesExt

CONSTANTS
    Pieces,      \* pieces of text
    Outputs,     \* what a command may write, sequences of pieces and newlines
    Modes,       \* values of print_mode
    TailLength,  \* the lines shown in mode "tail"
    AllowFailure,
    MaxBlank     \* bound: empty reads of a closed pipe

NL == "newline"

ASSUME LogAssumption == TailLength \in Nat /\ \A text \in Outputs : text \in Seq(Pieces \cup {NL})

VARIABLES
    mode,      \* print_mode
    output,    \* what the command writes in all
    written,   \* pieces written so far
    closed,    \* the command's end of the pipe is closed
    code,      \* the command's exit code, or "running"
    pipe,      \* written and not yet read
    textBuffer, \* read from the pipe and not yet returned by readline
    pc,        \* where the copying loop is
    late,      \* timeout has passed
    log,       \* the log file
    lines,     \* full_output
    tail,      \* tail_output
    warning,   \* whether a warning is shown
    screen,    \* the lines on the screen
    blanks     \* empty reads so far

logVars == <<mode, output, written, closed, code, pipe, textBuffer, pc, late, log, lines, tail, warning,
             screen, blanks>>
command == <<mode, output, written, closed, code>>
copies == <<log, lines, tail, warning, screen, blanks>>

Banner == <<"Running">>

LogInit ==
    /\ mode \in Modes /\ output \in Outputs
    /\ written = 0 /\ closed = FALSE /\ code = "running"
    /\ pipe = <<>> /\ textBuffer = <<>>
    /\ pc = "poll" /\ late = FALSE
    /\ log = <<>> /\ lines = <<>> /\ tail = <<>> /\ warning = FALSE
    /\ screen = <<Banner>> /\ blanks = 0

-------------------------------------------------------------------------------
(* The command writes, may close its output, and exits, which closes it.   *)
Write ==
    /\ ~closed /\ written < Len(output)
    /\ written' = written + 1
    /\ pipe' = Append(pipe, output[written + 1])
    /\ UNCHANGED <<mode, output, closed, code, textBuffer, pc, late, copies>>

CloseOutput ==
    /\ ~closed /\ written = Len(output)
    /\ closed' = TRUE
    /\ UNCHANGED <<mode, output, written, code, pipe, textBuffer, pc, late, copies>>

Exit(status) ==
    /\ code = "running" /\ written = Len(output)
    /\ code' = status /\ closed' = TRUE
    /\ UNCHANGED <<mode, output, written, pipe, textBuffer, pc, late, copies>>

TimePasses ==
    /\ mode = "tail" /\ ~late
    /\ late' = TRUE
    /\ UNCHANGED <<command, pipe, textBuffer, pc, copies>>

-------------------------------------------------------------------------------
(* The last n lines on the screen are deleted.                             *)
Without(n, shown) == SubSeq(shown, 1, Len(shown) - n)

Warning == <<"WARNING">>
OneIf(b) == IF b THEN 1 ELSE 0

(* The text of str.splitlines(): a line starts at the beginning and behind *)
(* every newline that something follows.                                   *)
StartsOf(text) == {i \in 1 .. Len(text) : i = 1 \/ text[i - 1] = NL}

EndsFrom(text, i) == {e \in i .. Len(text) : text[e] = NL} \cup {Len(text) + 1}

LineFrom(text, i) == SubSeq(text, i, Min(EndsFrom(text, i)) - 1)

NthStart(text, n) == CHOOSE i \in StartsOf(text) : Cardinality({j \in StartsOf(text) : j < i}) = n - 1

SplitLines(text) == [n \in 1 .. Cardinality(StartsOf(text)) |-> LineFrom(text, NthStart(text, n))]

(* Mutant: the loop waits for the exit code 0.                             *)
StillRunning_NotZero == code # "success"

(* process.poll() is None                                                  *)
StillRunning == code = "running"

Poll ==
    /\ pc = "poll" /\ (blanks < MaxBlank \/ ~StillRunning)
    /\ pc' = IF StillRunning THEN "select" ELSE "communicate"
    /\ UNCHANGED <<command, pipe, textBuffer, late, copies>>

(* select looks at the pipe, not at the buffer; the pipe is ready when     *)
(* there is something to read or it is closed.                             *)
Ready == pipe # <<>> \/ closed

Select ==
    /\ pc = "select"
    /\ pc' = IF Ready THEN "readline" ELSE "timeout"
    /\ UNCHANGED <<command, pipe, textBuffer, late, copies>>

(* readline without a newline in the buffer reads what the pipe has.       *)
FillBuffer ==
    /\ pc = "readline" /\ ~Contains(textBuffer, NL) /\ pipe # <<>>
    /\ textBuffer' = textBuffer \o pipe /\ pipe' = <<>>
    /\ UNCHANGED <<command, pc, late, copies>>

(* deque.append of a deque with maxlen.                                    *)
Kept(line) == LET all == Append(tail, line) IN SubSeq(all, Len(all) + 1 - Min({Len(all), TailLength}), Len(all))

TailToDelete(line) == Len(tail)

(* readline returns: a line, or what is left of a closed pipe.             *)
ReadLine ==
    /\ pc = "readline"
    /\ Contains(textBuffer, NL) \/ (closed /\ pipe = <<>>)
    /\ LET line == LineFrom(textBuffer, 1)
       IN  /\ textBuffer' = SubSeq(textBuffer, Len(line) + 2, Len(textBuffer))
           /\ lines' = Append(lines, line)
           /\ log' = Append(log \o line, NL)
           /\ \/ mode = "all" /\ screen' = Append(screen, line) /\ UNCHANGED <<tail, warning>>
              \/ mode = "none" /\ UNCHANGED <<screen, tail, warning>>
              \/ /\ mode = "tail" /\ tail' = Kept(line) /\ warning' = FALSE
                 /\ screen' = Without(OneIf(warning) + TailToDelete(line), screen) \o Kept(line)
    /\ blanks' = blanks + OneIf(textBuffer = <<>>)
    /\ pc' = "timeout"
    /\ UNCHANGED <<command, pipe, late>>

(* The warning of log_process_tail, renewed in every round.                *)
CheckTimeout ==
    /\ pc = "timeout"
    /\ warning' = (warning \/ late)
    /\ screen' = IF late THEN Append(Without(OneIf(warning), screen), Warning) ELSE screen
    /\ pc' = "poll"
    /\ UNCHANGED <<command, pipe, textBuffer, late, log, lines, tail, blanks>>

(* Mutant: what is left of the buffer is forgotten.                        *)
Rest_OfPipe == pipe

(* What process.communicate() returns once the command has ended.          *)
Rest == textBuffer \o pipe

LinesAfter == IF mode = "none" THEN lines ELSE lines \o SplitLines(Rest)

Communicate ==
    /\ pc = "communicate"
    /\ textBuffer' = <<>> /\ pipe' = <<>>
    /\ log' = log \o Rest
    /\ lines' = LinesAfter
    /\ screen' = CASE mode = "all" -> screen \o SplitLines(Rest)
                   [] mode = "tail" -> Without(OneIf(warning) + Len(tail), screen)
                   [] mode = "none" -> screen
    /\ pc' = "report"
    /\ UNCHANGED <<command, late, tail, warning, blanks>>

Failed == ~AllowFailure /\ code # "success"
Status == IF Failed THEN <<"Fail">> ELSE <<"Success">>

(* The end of run_command: it returns the lines or raises.                 *)
Report ==
    /\ pc = "report"
    /\ screen' = IF mode = "all" THEN Append(screen, Status)
                 ELSE Append(Without(1, screen), Status) \o (IF Failed THEN lines ELSE <<>>)
    /\ pc' = IF Failed THEN "raised" ELSE "returned"
    /\ UNCHANGED <<command, pipe, textBuffer, late, log, lines, tail, warning, blanks>>

Copying == Poll \/ Select \/ FillBuffer \/ ReadLine \/ CheckTimeout \/ Communicate \/ Report
LogNext == Write \/ CloseOutput \/ (\E status \in {"success", "failure"} : Exit(status)) \/ TimePasses \/ Copying

LogSpec == LogInit /\ [][LogNext]_logVars
-------------------------------------------------------------------------------
Ended == pc \in {"returned", "raised"}
AllNewlines(text) == \A i \in 1 .. Len(text) : text[i] = NL

(* However the command's writes, its exit and the loop interleave, the log *)
(* file is what the command has written, in its order; only reads of a     *)
(* closed pipe add newlines behind it.                                     *)
LogIsTheOutput ==
    Ended => IsPrefix(output, log) /\ AllNewlines(SubSeq(log, Len(output) + 1, Len(log)))

(* The list of lines is that of the log file, whatever was still in the    *)
(* buffer when the command ended.                                          *)
LinesAreTheLog == Ended /\ mode # "none" => SplitLines(log) = lines

(* In mode "tail" the screen holds the banner, the last lines and at most  *)
(* one warning: nothing else is deleted, and nothing stays behind.         *)
ScreenShowsTail ==
    mode = "tail" =>
        CASE pc = "report" -> screen = <<Banner>>
          [] Ended -> Head(screen) = Status
          [] OTHER -> screen = <<Banner>> \o tail \o (IF warning THEN <<Warning>> ELSE <<>>)

(* What run_command leaves of a command: log file, lines and screen.       *)
CopiesAreRight == LogIsTheOutput /\ LinesAreTheLog /\ ScreenShowsTail

(* When the command has exited, run_command ends.                          *)
CommandEnds == code # "running" ~> Ended
=============================================================================
