------------------------------ MODULE LogParser ------------------------------
(***************************************************************************)
(* How the client finds the program's events in the log of a transaction   *)
(* (`decode-tx-log`).  A log is a flat list of lines: the runtime writes a *)
(* line when a program is invoked and one when it returns, and programs    *)
(* write their own in between.  Which program wrote a line is not in the   *)
(* line: the parser follows the invocations on a stack of its own.         *)
(*                                                                         *)
(* The runtime appends a line and the parser reads it in the same step,    *)
(* although it reads the log later: it never looks at any other line.  A   *)
(* log may be cut off at any line.                                         *)
(***************************************************************************)
EXTENDS Integers, Sequences

CONSTANTS
  Programs, Self,   \* program ids; Self is the cp-swap program
  MAX_DEPTH,        \* of nested invocations, a limit of the runtime
  MAX_LINES,        \* bounds the log
  Texts,            \* what a message of a program may say
  ForeignTexts      \* what a message of another program may say

ASSUME LogAssumption ==
  /\ Self \in Programs
  /\ Programs \subseteq STRING
  /\ {"", "cpi"} \cap Programs = {}
  /\ MAX_DEPTH \in Nat \ {0}
  /\ MAX_LINES \in Nat \ {0}
  /\ Texts = {"plain", "has_invoke", "ends_in_success"}
  /\ ForeignTexts \subseteq Texts

VARIABLES
  calls,      \* the programs being executed, innermost last
  ended,      \* the transaction is over
  emitted,    \* the events of cp-swap, in order
  execution,  \* Execution.stack of the parser
  crashed,    \* an assertion of the parser failed
  decoded,    \* the events the parser printed
  lines       \* how long the log is

logVars == <<calls, ended, emitted, lines>>
parserVars == <<execution, crashed, decoded>>
allLogVars == <<logVars, parserVars>>

\* SwapEvent and LpChangeEvent; what another program writes as data is neither.
OwnEvents == {"SwapEvent", "LpChangeEvent"}

Top(stack) == stack[Len(stack)]

Below(stack) == SubSeq(stack, 1, Len(stack) - 1)

(* ------------------------------- the lines ----------------------------- *)

\* "Program <id> invoke [n]", "Program <id> success", "Program log: <text>",
\* "Program data: <event>", and any other line of the runtime.
Line(kind, detail) == [kind |-> kind, detail |-> detail]

\* Data is base64; that it spells "invoke" by chance is left out.
ContainsInvoke(line) == line.kind = "invoke" \/ line = Line("log", "has_invoke")

\* The pattern "^Program (.*) success*$" takes "Program log: ... success" too.
MatchesSuccess(line) == line.kind = "success" \/ line = Line("log", "ends_in_success")

HasPrefix(line) == line.kind \in {"log", "data"}

(* ------------------------------ the parser ----------------------------- *)

\* A handler tells which program to push, if any, and whether to pop.
NoPush == ""

Push(program) == [new_program |-> program, did_pop |-> FALSE]

Pop == [new_program |-> NoPush, did_pop |-> TRUE]

Keep == [new_program |-> NoPush, did_pop |-> FALSE]

\* takes an invocation of the program by another one for somebody else's
BugForgetsReentry(line) ==
  IF ContainsInvoke(line) THEN Push("cpi") ELSE IF MatchesSuccess(line) THEN Pop ELSE Keep

handle_system_log(line) ==
  IF line = Line("invoke", Self)
  THEN Push(Self)
  ELSE IF ContainsInvoke(line)
       THEN Push("cpi")
       ELSE IF MatchesSuccess(line) THEN Pop ELSE Keep

\* treats the program's own messages like the runtime's lines
BugReadsMessages(line) == IF line.kind = "data" THEN Keep ELSE handle_system_log(line)

\* A line with a prefix comes from the program itself: a message is skipped, and
\* data is decoded (see Decode).
handle_program_log(line) == IF HasPrefix(line) THEN Keep ELSE handle_system_log(line)

InOwnContext == execution # <<>> /\ Top(execution) = Self

Handle(line) == IF InOwnContext THEN handle_program_log(line) ELSE handle_system_log(line)

\* Other data than the two events is reported as unknown.
Decode(line) ==
  IF InOwnContext /\ line.kind = "data" /\ line.detail \in OwnEvents
  THEN Append(decoded, line.detail)
  ELSE decoded

\* The loop of parse_program_event.  Both a push and a pop never occur together.
ParseLine(line) ==
  LET pushed == IF Handle(line).new_program = NoPush
                THEN execution
                ELSE Append(execution, Handle(line).new_program)
  IN  /\ decoded' = Decode(line)
      /\ execution' = IF Handle(line).did_pop /\ pushed # <<>> THEN Below(pushed) ELSE pushed
      /\ crashed' = (Handle(line).did_pop /\ pushed = <<>>)

\* Execution::new takes the program from the first line.
ParseFirstLine(line) ==
  /\ execution' = <<line.detail>>
  /\ UNCHANGED <<crashed, decoded>>

Parse(line) ==
  /\ ~crashed
  /\ IF lines = 0 THEN ParseFirstLine(line) ELSE ParseLine(line)
  /\ lines' = lines + 1

(* -------------------- the transaction and its log ---------------------- *)

\* An instruction of the transaction, or a call of the innermost program.
Invoke(program) ==
  /\ Len(calls) < MAX_DEPTH
  /\ calls' = Append(calls, program)
  /\ Parse(Line("invoke", program))
  /\ UNCHANGED <<ended, emitted>>

Return ==
  /\ calls # <<>>
  /\ calls' = Below(calls)
  /\ Parse(Line("success", Top(calls)))
  /\ UNCHANGED <<ended, emitted>>

Message(text) ==
  /\ calls # <<>>
  /\ Top(calls) # Self => text \in ForeignTexts
  /\ Parse(Line("log", text))
  /\ UNCHANGED <<calls, ended, emitted>>

EmitEvent(event) ==
  /\ calls # <<>>
  /\ Top(calls) = Self
  /\ emitted' = Append(emitted, event)
  /\ Parse(Line("data", event))
  /\ UNCHANGED <<calls, ended>>

\* Another program may write anything as data, an event that looks like ours too.
ForeignData(event) ==
  /\ calls # <<>>
  /\ Top(calls) # Self
  /\ Parse(Line("data", event))
  /\ UNCHANGED <<calls, ended, emitted>>

\* "Program <id> consumed ... compute units" and the like.
RuntimeNote ==
  /\ calls # <<>>
  /\ Parse(Line("note", Top(calls)))
  /\ UNCHANGED <<calls, ended, emitted>>

\* A failure of any program fails the transaction: "Program <id> failed: ..." of
\* every caller is all that follows.
Fail ==
  /\ calls # <<>>
  /\ Parse(Line("failed", Top(calls)))
  /\ ended' = TRUE
  /\ UNCHANGED <<calls, emitted>>

ParserInit ==
  /\ calls = <<>>
  /\ ended = FALSE
  /\ emitted = <<>>
  /\ execution = <<>>
  /\ crashed = FALSE
  /\ decoded = <<>>
  /\ lines = 0

ParserNext ==
  /\ ~ended
  /\ lines < MAX_LINES
  /\ \/ \E program \in Programs : Invoke(program)
     \/ Return
     \/ \E text \in Texts : Message(text)
     \/ \E event \in OwnEvents : EmitEvent(event)
     \/ \E event \in OwnEvents \cup {"other data"} : ForeignData(event)
     \/ RuntimeNote
     \/ Fail

ParserSpec == ParserInit /\ [][ParserNext]_allLogVars

(* ------------------------------ properties ----------------------------- *)

\* The parser is in the context of the program exactly when the program executes,
\* at every depth: "Switch program context on CPI" and "Program returned" happen
\* when a program is called and returns, and its assertions never fail.
ContextIsReal ==
  /\ ~crashed
  /\ Len(execution) = Len(calls)
  /\ \A i \in 1..Len(calls) : execution[i] = Self <=> calls[i] = Self

\* The events the client prints are those the program emitted, all of them and in
\* order, whatever is nested in what and wherever the log is cut off; data of
\* another program is never taken for an event of this one.
DecodedAreEmitted == decoded = emitted

=============================================================================
