----------------------------- MODULE ControlPort -----------------------------
(***************************************************************************)
(* TorControl of backend/torando_gui/torctl.py: one session as status and  *)
(* new_identity open it (_ctl in app.py): PROTOCOLINFO, AUTHENTICATE, one  *)
(* question, QUIT.  A line is one element of the stream, followed by CR    *)
(* and LF; what it says beside its code and its separator is left out.     *)
(***************************************************************************)
EXTENDS Sockets

CONSTANT Answers  \* what Tor may answer: sequences of lines [code, sep]

\* re is the number of the command a line answers.
Line(re, code, sep) == [re |-> re, code |-> code, sep |-> sep]

Shape == [code : {"2", "5", "dot", "short"}, sep : {"space", "dash", "plus", "none"}]

\* Line i of an answer is in a block of data, whatever it looks like.
InData(answer, i) ==
  \E j \in 1..(i - 1) :
    /\ answer[j].code = "2" /\ answer[j].sep = "plus"
    /\ \A k \in (j + 1)..(i - 1) : answer[k].code # "dot"

IsEnd(answer, i) ==
  ~InData(answer, i) /\ answer[i].code = "2" /\ answer[i].sep = "space"

\* Tor's control protocol: nothing follows the end line of an answer.  One
\* may lack its end, and have any lines before it.
AnswersAssumption ==
  /\ Answers \subseteq Seq(Shape)
  /\ \A answer \in Answers : \A i \in 1..(Len(answer) - 1) : ~IsEnd(answer, i)

Reply(re, answer) ==
  [i \in 1..Len(answer) |-> Line(re, answer[i].code, answer[i].sep)]

\* Every line is followed by CR and LF.
OnWire(reply) ==
  [i \in 1..(3 * Len(reply)) |->
     CASE i % 3 = 1 -> reply[(i + 2) \div 3]
       [] i % 3 = 2 -> Line(reply[(i + 1) \div 3].re, "CR", "none")
       [] i % 3 = 0 -> Line(reply[i \div 3].re, "LF", "none")]

Command == <<"PROTOCOLINFO", "AUTHENTICATE", "question">>
Asking == ToSet(Command)

\* command(): the line is sent, and Tor answers.
Asks(i) ==
  /\ at' = Command[i]
  /\ \E answer \in Answers : Sends(Reply(i, answer), OnWire(Reply(i, answer)))

Dials ==
  /\ at = "idle"
  /\ \/ Asks(1) /\ UNCHANGED result
     \/ Ends("OSError") /\ UNCHANGED <<wire, sent>>
  /\ UNCHANGED <<open, buf, got, lines, data, need>>

\* A ControlError: bootstrap and circuit_count return None or 0 for one they
\* meet; one met while authenticating leaves the socket open.
Errs == Ends(IF at = "question" THEN "empty" ELSE "ControlError")

-----------------------------------------------------------------------------
(* _read_line *)

HasLine == Len(buf) >= 3   \* one line, CR and LF

Recv ==
  /\ at \in Asking /\ ~HasLine
  /\ \/ Receives(4096) /\ UNCHANGED <<at, open, sent, got, lines, data, need, result>>
     \/ Starves(IF at = "question" THEN "empty" ELSE "ControlError", "OSError")

Reads(l) ==
  /\ at \in Asking /\ HasLine
  /\ l = Head(buf)
  /\ buf' = SubSeq(buf, 4, Len(buf))

-----------------------------------------------------------------------------
(* _read_reply *)

\* The reply is complete: what the caller does with it.  _authenticate may
\* find a cookie, no cookie file, no need of one, or nothing it knows.
Completes(reply) ==
  /\ got' = Append(got, reply) /\ lines' = <<>> /\ data' = FALSE
  /\ \/ at = "PROTOCOLINFO" /\ Asks(2) /\ UNCHANGED result
     \/ /\ at = "PROTOCOLINFO" /\ UNCHANGED <<wire, sent>>
        /\ \E why \in {"OSError", "ControlError"} : Ends(why)
     \/ at = "AUTHENTICATE" /\ Asks(3) /\ UNCHANGED result
     \/ at = "question" /\ Ends("value") /\ UNCHANGED <<wire, sent>>

DataLine ==
  \E l \in ToSet(buf) :
    /\ Reads(l) /\ data /\ l.code # "dot"
    /\ lines' = Append(lines, l)
    /\ UNCHANGED <<at, wire, open, sent, got, data, need, result>>

\* Mutant: the end of the data is taken for the end of the reply.
DataEndsReply ==
  \E l \in ToSet(buf) :
    /\ Reads(l) /\ data /\ l.code = "dot"
    /\ Completes(lines)
    /\ UNCHANGED <<open, need>>

DataEnds ==
  \E l \in ToSet(buf) :
    /\ Reads(l) /\ data /\ l.code = "dot"
    /\ data' = FALSE
    /\ UNCHANGED <<at, wire, open, sent, got, lines, need, result>>

MiddleLine ==
  \E l \in ToSet(buf) :
    /\ Reads(l) /\ ~data /\ l.code = "2" /\ l.sep # "space"
    /\ lines' = Append(lines, l)
    /\ data' = (l.sep = "plus")
    /\ UNCHANGED <<at, wire, open, sent, got, need, result>>

LastLine ==
  \E l \in ToSet(buf) :
    /\ Reads(l) /\ ~data /\ l.code = "2" /\ l.sep = "space"
    /\ Completes(Append(lines, l))
    /\ UNCHANGED <<open, need>>

BadLine ==
  \E l \in ToSet(buf) :
    /\ Reads(l) /\ ~data /\ l.code # "2"
    /\ Errs
    /\ UNCHANGED <<wire, open, sent, got, lines, data, need>>

ControlStep ==
  Dials \/ Recv \/ DataLine \/ DataEnds \/ MiddleLine \/ LastLine \/ BadLine

\* What the first n lines of a reply say: all of them but the dots that end
\* a block of data.
Says(reply) ==
  LET Lines[n \in 0..Len(reply)] ==
        IF n = 0 THEN <<>>
        ELSE IF reply[n].code = "dot" THEN Lines[n - 1]
        ELSE Append(Lines[n - 1], reply[n])
  IN Lines
Said(reply) == Says(reply)[Len(reply)]

=============================================================================
