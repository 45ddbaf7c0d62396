------------------------------- MODULE Output ------------------------------
(* A program that prints: its calls of io::printf (Vsnprintf) and of             *)
(* io::putString (io/io.cc) in turn, through the platform's _putChar         *)
(* (Console), up to the abort with which it ends.                            *)
EXTENDS Vsnprintf, Console

CONSTANTS Programs,    \* sequences of calls, with the text that each shows
          NULLPTR      \* no string

VARIABLES program,     \* all of the calls
          todo         \* those to come

programVars == <<program, todo>>
vars == <<printVars, consoleVars, programVars>>

\* Between two calls: the one before has returned and its text was written.
Idle == done /\ queue = <<>> /\ serial = <<>>

Init == /\ ConsoleInit /\ queue = <<>>
        /\ program \in Programs /\ todo = program
        /\ format = <<>> /\ va = <<>> /\ pos = 1 /\ idx = 0 /\ sent = <<>> /\ done = TRUE

NextCall(op) == /\ cpu = "runs" /\ Idle /\ todo # <<>> /\ Head(todo).op = op
                /\ todo' = Tail(todo)
                /\ UNCHANGED <<program, platform, cpu, said, screen, cursor, serial, fifo, wire>>

Printf == /\ NextCall("printf")
          /\ format' = Head(todo).format /\ va' = Head(todo).args
          /\ pos' = 1 /\ idx' = 0 /\ sent' = <<>> /\ done' = FALSE
          /\ UNCHANGED queue

\* The formatting goes on when _putChar has returned for each character.
Format == /\ queue = <<>> /\ serial = <<>>
          /\ VsnprintfStep
          /\ queue' = SubSeq(sent', Len(sent) + 1, Len(sent'))
          /\ UNCHANGED <<platform, cpu, said, screen, cursor, serial, fifo, wire, programVars>>

\* Up to the NUL, or as many characters as the caller says, NULs too.
PutString == /\ NextCall("putString")
             /\ LET str == Head(todo).str
                IN  queue' = IF str = NULLPTR THEN <<>>
                             ELSE SubSeq(str, 1, SelectInSeq(Append(str, NUL), LAMBDA c : c = NUL) - 1)
             /\ UNCHANGED printVars
PutStringSize == /\ NextCall("putStringSize")
                 /\ queue' = IF Head(todo).str = NULLPTR THEN <<>>
                             ELSE SubSeq(Head(todo).str, 1, Head(todo).size)
                 /\ UNCHANGED printVars

Halt == todo = <<>> /\ Idle /\ Abort /\ UNCHANGED <<printVars, programVars>>

Processor == (InitIo \/ PutChar \/ WriteSerial) /\ UNCHANGED <<printVars, programVars>>
Device == Transmit /\ UNCHANGED <<printVars, programVars>>
Next == \/ Printf \/ Format \/ PutString \/ PutStringSize \/ Halt
        \/ Processor \/ Device

\* The processor goes on unless it waits for the device, and the device sends.
\* The third line is WF_vars(Format) with its enabling condition written out.
Fairness == /\ WF_vars(Processor)
            /\ WF_vars(Printf \/ PutString \/ PutStringSize \/ Halt)
            /\ []<>(done \/ queue # <<>> \/ serial # <<>>) \/ []<><<Format>>_vars
            /\ WF_vars(Device)
Spec == Init /\ [][Next]_vars /\ Fairness

-----------------------------------------------------------------------------
\* What the calls should show, one after the other.
Shows(calls) == FoldLeft(LAMBDA s, call : s \o call.shows, <<>>, calls)

\* The busy waits end and the program comes to its abort; by then everything it
\* printed is on its way, and what the device still has in its queue is sent
\* while the processor stands (_putChar, abort).
AllIsSent ==
  <>[](/\ cpu = "halted" /\ fifo = <<>>
       /\ \E before \in {<<>>, <<"?">>} : wire = before \o AsSent(Shows(program)))
=============================================================================
