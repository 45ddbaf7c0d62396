------------------------------ MODULE Console ------------------------------
(* The console of each platform: _initIo, _putChar and abort of              *)
(* boot/x86_64/io.cc (a text screen and a serial port), boot/raspi3/io.cc    *)
(* (the mini UART) and boot/linux-x86_64/io.cc (the standard output).        *)
(*                                                                           *)
(* The processor and the device are two parties: the processor fills the     *)
(* device's transmit queue when its status register says so, and the device  *)
(* sends what is in the queue at its own pace.                               *)
EXTENDS Integers, Sequences, FiniteSets, SequencesExt

CONSTANTS Platforms,     \* those to look at, of "x86_64", "raspi3", "linux"
          VGA_WIDTH, VGA_HEIGHT,
          FIFO_SIZE      \* what the device's transmit queue holds

ASSUME ConsoleAssumption ==
  /\ Platforms \subseteq {"x86_64", "raspi3", "linux"}
  /\ VGA_WIDTH \in Nat \ {0} /\ VGA_HEIGHT \in Nat \ {0} /\ FIFO_SIZE \in Nat \ {0}

VARIABLES platform,
          cpu,        \* "boots", "runs" or "halted"
          queue,      \* what the program still wants to put
          said,       \* what went through _putChar
          screen,     \* vgaTerminal, by row and column
          cursor,     \* vgaTerminalRow and vgaTerminalColumn, from 0
          serial,     \* what this call of _putChar has yet to write
          fifo,       \* in the device
          wire        \* what the device has sent

cpuVars == <<cpu, queue, said, screen, cursor, serial>>
consoleVars == <<platform, cpuVars, fifo, wire>>

LF == "\n"
CR == "\r"
BLANK == " "
Rows == 0 .. VGA_HEIGHT - 1
Columns == 0 .. VGA_WIDTH - 1

\* The firmware has used the screen and the port before.
ConsoleInit ==
  /\ platform \in Platforms
  /\ cpu = IF platform = "linux" THEN "runs" ELSE "boots"
  /\ screen = [r \in Rows |-> [c \in Columns |-> "?"]]
  /\ cursor = [row |-> 0, column |-> 0]
  /\ fifo = IF platform = "x86_64" THEN <<"?">> ELSE <<>>
  /\ said = <<>> /\ serial = <<>> /\ wire = <<>>

\* Clears the screen; the FIFO control register of the PC's port its queues.
InitIo ==
  /\ cpu = "boots"
  /\ cpu' = "runs"
  /\ IF platform = "x86_64"
     THEN /\ screen' = [r \in Rows |-> [c \in Columns |-> BLANK]]
          /\ fifo' = <<>>
     ELSE UNCHANGED <<screen, fifo>>
  /\ UNCHANGED <<platform, queue, said, cursor, serial, wire>>

NextRow == [row |-> IF cursor.row + 1 = VGA_HEIGHT THEN 0 ELSE cursor.row + 1,
            column |-> 0]
\* Mutant: a new line keeps the column.
Advance_KeepsColumn(c) == IF c = LF THEN [NextRow EXCEPT !.column = cursor.column]
                          ELSE IF cursor.column + 1 = VGA_WIDTH THEN NextRow
                          ELSE [cursor EXCEPT !.column = @ + 1]
Advance(c) == IF c = LF \/ cursor.column + 1 = VGA_WIDTH THEN NextRow
              ELSE [cursor EXCEPT !.column = @ + 1]

PutCharVga(c) ==
  /\ cursor' = Advance(c)
  /\ screen' = IF c = LF THEN screen
               ELSE [screen EXCEPT ![cursor.row][cursor.column] = c]

\* The recursive call that puts a carriage return after a new line.
Serial(c) == IF c = LF THEN <<c, CR>> ELSE <<c>>

\* _putChar up to the first look at the status register, or up to the write of
\* the system, which takes the character at once.
PutChar ==
  /\ cpu = "runs" /\ serial = <<>> /\ queue # <<>>
  /\ LET c == Head(queue)
     IN  /\ queue' = Tail(queue)
         /\ said' = Append(said, c)
         /\ IF platform = "x86_64" THEN PutCharVga(c) ELSE UNCHANGED <<screen, cursor>>
         /\ IF platform = "linux"
            THEN wire' = Append(wire, c) /\ UNCHANGED serial
            ELSE serial' = Serial(c) /\ UNCHANGED wire
  /\ UNCHANGED <<platform, cpu, fifo>>

\* Mutants: no busy wait; a busy wait for the opposite.
Ready_Always == TRUE
Ready_Inverted == fifo # <<>>
\* Bit 5 of the line status register: the PC's port sets it when the queue is
\* empty, the mini UART when there is room for a byte.
Ready == IF platform = "x86_64" THEN fifo = <<>> ELSE Len(fifo) < FIFO_SIZE

\* The busy wait is over and the byte is written; a full queue would drop it.
WriteSerial ==
  /\ cpu = "runs" /\ serial # <<>> /\ Ready
  /\ fifo' = IF Len(fifo) < FIFO_SIZE THEN Append(fifo, Head(serial)) ELSE fifo
  /\ serial' = Tail(serial)
  /\ UNCHANGED <<platform, cpu, queue, said, screen, cursor, wire>>

\* The device (external) sends a byte.
Transmit ==
  /\ fifo # <<>>
  /\ wire' = Append(wire, Head(fifo))
  /\ fifo' = Tail(fifo)
  /\ UNCHANGED <<platform, cpuVars>>

\* abort: the processor stops, the device does not.
Abort ==
  /\ cpu = "runs" /\ serial = <<>> /\ queue = <<>>
  /\ cpu' = "halted"
  /\ UNCHANGED <<platform, queue, said, screen, cursor, serial, fifo, wire>>

-----------------------------------------------------------------------------
(* What a reader of the screen and of the wire sees. *)

\* Where the character behind the first i of a text goes on a screen: in which
\* column, and on which line of those that a new line or a full row ends.
Column(text, i) ==
  (i - Max({0} \cup {j \in 1 .. i : text[j] = LF})) % VGA_WIDTH
Line(text, i) == Cardinality({j \in 1 .. i : Column(text, j) = 0})

\* The last lines of the text are on the screen, in the order of the rows that
\* wrap around, and the cursor is behind the last character (putCharVga).
ScreenShowsText ==
  platform = "x86_64" /\ cpu # "boots" =>
    LET last == Line(said, Len(said))
    IN  /\ cursor = [row |-> last % VGA_HEIGHT, column |-> Column(said, Len(said))]
        /\ \A i \in 1 .. Len(said) :
             LET line == Line(said, i - 1)
             IN  said[i] # LF /\ last - line < VGA_HEIGHT
                   => screen[line % VGA_HEIGHT][Column(said, i - 1)] = said[i]

WithReturns(text) == FlattenSeq([i \in DOMAIN text |-> Serial(text[i])])
AsSent(text) == IF platform = "linux" THEN text ELSE WithReturns(text)

\* Nothing is lost, doubled or reordered on its way to the wire, and on the
\* bare machines every new line is followed by a carriage return (_putChar).
\* Bytes the firmware left in the queue may come before the first character.
WireFollowsText ==
  \E before \in {<<>>, <<"?">>} : wire \o fifo \o serial = before \o AsSent(said)
=============================================================================
