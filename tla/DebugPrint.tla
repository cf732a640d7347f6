----------------------------- MODULE DebugPrint -----------------------------
(***************************************************************************)
(* Debug output (src/src/debug.c) and the serial port it writes to.        *)
(*                                                                         *)
(* The port sends at its own pace between any two steps of the kernel. It  *)
(* is not in the repository: a PC UART, with or without a transmit FIFO.   *)
(*                                                                         *)
(* Characters are their codes. A format is given in pieces, each of which  *)
(* is a character or a % with the character after it; the program sees the *)
(* characters only, in the kernel image one string after the other.        *)
(***************************************************************************)
EXTENDS Integers, Sequences, SequencesExt, FiniteSets

CONSTANTS
  Formats,    \* the formats of the kernel image, in the order they lie there
  Calls,      \* the calls of debug_printf: a format and arguments
  MaxCalls,   \* bound: how many calls are made
  Width,      \* the bits of a number, and the bytes of buf
  Leftovers,      \* what va_arg may give for a number that was not passed
  LeftoverTexts,  \* what may lie where it says that a string is
  FifoSize        \* how many characters the port takes ahead

NUL     == 0
Percent == 37
Base    == [letter \in {100, 120, 98} |->        \* 'd', 'x', 'b'
              CASE letter = 100 -> 10 [] letter = 120 -> 16 [] letter = 98 -> 2]
Str     == 115
Chr     == 99

Power(b, k) == LET p[j \in Nat] == IF j = 0 THEN 1 ELSE b * p[j - 1] IN p[k]

Byte   == 0 .. 255
Number == 0 .. Power(2, Width) - 1

Lone(piece)     == piece = <<Percent>>
Binary(piece)   == Len(piece) = 2 /\ piece[2] = 98
TakesArg(piece) == Len(piece) = 2 /\ piece[2] \in DOMAIN Base \cup {Str, Chr}

(* How many arguments the first k pieces of a format take.                 *)
ArgIndex(format, k) == Cardinality({j \in 1 .. k : TakesArg(format[j])})

(* The k-th piece of a format is one: a % alone is only at the end.        *)
IsPiece(format, k) ==
  \/ Len(format[k]) = 1 /\ (Lone(format[k]) => k = Len(format))
  \/ Len(format[k]) = 2 /\ format[k][1] = Percent

(* Arguments are passed for conversions only, each of its conversion's     *)
(* type.                                                                   *)
Typed(piece, arg) == /\ piece[2] \in DOMAIN Base => arg \in Number
                     /\ piece[2] = Str => arg \in Seq(Byte)
                     /\ piece[2] = Chr => arg \in Nat

Passes(format, list) ==
  /\ Len(list) \in Nat /\ list = [k \in 1 .. Len(list) |-> list[k]]
  /\ Len(list) <= ArgIndex(format, Len(format))
  /\ \A k \in DOMAIN format :
       TakesArg(format[k]) /\ ArgIndex(format, k) <= Len(list)
         => Typed(format[k], list[ArgIndex(format, k)])

ASSUME DebugAssumption ==
  /\ Formats \in Seq(Seq(Seq(Byte \ {NUL})))
  /\ \A f \in DOMAIN Formats : \A k \in DOMAIN Formats[f] : IsPiece(Formats[f], k)
  /\ Width \in Nat \ {0, 1} /\ MaxCalls \in Nat /\ FifoSize \in Nat \ {0}
  /\ \A call \in Calls : call.format \in DOMAIN Formats /\ Passes(Formats[call.format], call.args)
  /\ Leftovers \subseteq Number /\ LeftoverTexts \subseteq Seq(Byte)
  /\ ~Lone(Last(Last(Formats)))        \* the image does not end with it

VARIABLES
  uart,     \* the port: its registers and the characters it has not sent
  line,     \* what it has sent
  pc,       \* "init", "idle", "scan", "put", or "wild": the stack is broken,
            \* or a pointer that was not passed leads out of the memory
  step,     \* how many of its writes debug_init has made
  ptr,      \* msg, a place in the kernel image
  args,     \* the arguments va_arg has not given yet
  out,      \* the characters debug_putc is still to be called with
  overrun,  \* a byte was stored past buf
  history   \* the calls of debug_printf so far

kernel == <<pc, step, ptr, args, out, overrun, history>>
vars   == <<uart, line, kernel>>

Garbled == 256      \* what a character sent at a wrong speed or length becomes

TypeOK ==
  /\ uart \in [dlab : BOOLEAN, loop : BOOLEAN, lo : Byte, hi : Byte, format : 0 .. 127,
               fifo : Seq(Byte)]
  /\ Len(uart.fifo) <= FifoSize
  /\ line \in Seq(0 .. Garbled)
  /\ pc \in {"init", "idle", "scan", "put", "wild"}
  /\ step \in 0 .. 10 /\ ptr \in Nat
  /\ out \in Seq(Byte) /\ overrun \in BOOLEAN
  /\ history \in Seq(Calls) /\ Len(history) <= MaxCalls

(* What k divisions leave of a number.                                     *)
After(n, base) ==
  LET after[k \in Nat] == IF k = 0 THEN n ELSE after[k - 1] \div base IN after

-----------------------------------------------------------------------------
(* Bugs the code could have had: no wait for the port, a count that goes   *)
(* one division too far, a %c that is not cut to a byte, a conversion that *)
(* steps over the character after it.                                      *)

NeverWaits == TRUE

CountsOneMore(n, base) ==
  1 + CHOOSE k \in 0 .. Width :
        After(n, base)[k] = 0 /\ (k = 0 \/ After(n, base)[k - 1] # 0)

KeepsTheInt(arg) == arg

StepsOverTheNext == ptr + 3

-----------------------------------------------------------------------------
(* The kernel image, and what a call asks for.                             *)

Image(format) == Append(FlattenSeq(format), NUL)
rodata        == FlattenSeq([f \in DOMAIN Formats |-> Image(Formats[f])])
Start(f)      == Len(FlattenSeq([g \in 1 .. f - 1 |-> Image(Formats[g])])) + 1

Digit(v) == IF v < 10 THEN 48 + v ELSE 87 + v                  \* DIGITS

(* A number: as many digits as it needs, the highest first.                *)
Numeral(n, base) ==
  LET len == CHOOSE l \in 1 .. Width : n < Power(base, l) /\ (l = 1 \/ Power(base, l - 1) <= n)
  IN  [k \in 1 .. len |-> Digit((n \div Power(base, len - k)) % base)]

PieceText(piece, arg) ==
  IF Len(piece) = 1 THEN piece
  ELSE CASE piece[2] = Percent       -> <<Percent>>
         [] piece[2] \in DOMAIN Base -> Numeral(arg, Base[piece[2]])
         [] piece[2] = Str           -> arg
         [] piece[2] = Chr           -> <<arg % 256>>
         [] OTHER                    -> <<>>

Text(call) ==
  LET format == Formats[call.format]
      arg(k) == call.args[ArgIndex(format, k)]
  IN  FlattenSeq([k \in DOMAIN format |->
        IF TakesArg(format[k]) THEN PieceText(format[k], arg(k)) ELSE PieceText(format[k], NUL)])

Texts == [call \in Calls |-> Text(call)]

(* A number whose top bit is set, in base 2.                               *)
FillsBuffer(call) ==
  LET format == Formats[call.format]
  IN  \E k \in DOMAIN format : /\ Binary(format[k]) /\ ArgIndex(format, k) <= Len(call.args)
                                /\ call.args[ArgIndex(format, k)] >= Power(2, Width - 1)

(* A call that debug_printf has a meaning for.                             *)
EndsWithPercent(call) == Lone(Last(Formats[call.format]))
Complete(call) ==
  Len(call.args) = ArgIndex(Formats[call.format], Len(Formats[call.format]))
Careful == {call \in Calls : /\ Complete(call)
                              /\ ~EndsWithPercent(call) /\ ~FillsBuffer(call)}

(* A %b without its number: of the format, or of those behind a lone %.    *)
LacksNumber(call) ==
  LET format == Formats[call.format]
  IN  \/ \E k \in DOMAIN format : Binary(format[k]) /\ ArgIndex(format, k) > Len(call.args)
      \/ /\ EndsWithPercent(call)
         /\ \E f \in call.format + 1 .. Len(Formats) :
              \E k \in DOMAIN Formats[f] : Binary(Formats[f][k])

-----------------------------------------------------------------------------
(* The serial port.                                                        *)

Clears(v) == (v \div 4) % 2 = 1         \* FCR bit 2: empty the transmit FIFO
Loops(v)  == (v \div 16) % 2 = 1        \* MCR bit 4: send to the own receiver

outb(u, reg, v) ==
  CASE reg = 0 /\ u.dlab  -> [u EXCEPT !.lo = v]
    [] reg = 0 /\ ~u.dlab -> IF Len(u.fifo) < FifoSize THEN [u EXCEPT !.fifo = Append(@, v)] ELSE u
    [] reg = 1            -> IF u.dlab THEN [u EXCEPT !.hi = v] ELSE u
    [] reg = 2            -> IF Clears(v) THEN [u EXCEPT !.fifo = <<>>] ELSE u
    [] reg = 3            -> [u EXCEPT !.dlab = v >= 128, !.format = v % 128]
    [] reg = 4            -> [u EXCEPT !.loop = Loops(v)]

(* 38400 baud, eight bits, no parity, one stop bit.                        *)
AsAgreed(u) == u.lo = 3 /\ u.hi = 0 /\ u.format = 3

Send == /\ uart.fifo # <<>>
        /\ uart' = [uart EXCEPT !.fifo = Tail(@)]
        /\ line' = IF uart.loop THEN line
                   ELSE Append(line, IF AsAgreed(uart) THEN Head(uart.fifo) ELSE Garbled)
        /\ UNCHANGED kernel

-----------------------------------------------------------------------------
(* The kernel.                                                             *)

InitWrites ==
  <<<<1, 0>>, <<3, 128>>, <<0, 3>>, <<1, 0>>, <<3, 3>>, <<2, 199>>, <<4, 11>>, <<4, 30>>,
    <<0, 174>>, <<4, 15>>>>

TestByte == 174

Init == /\ uart \in [dlab : BOOLEAN, loop : BOOLEAN, lo : {1}, hi : {0}, format : {0}, fifo : {<<>>}]
        /\ line = <<>>
        /\ pc = "init" /\ step = 0 /\ ptr = 0
        /\ args = <<>> /\ out = <<>> /\ overrun = FALSE /\ history = <<>>

(* debug_init, one write after the other.                                  *)
InitWrite ==
  /\ pc = "init"
  /\ step' = step + 1
  /\ uart' = outb(uart, InitWrites[step'][1], InitWrites[step'][2])
  /\ pc' = IF step' = Len(InitWrites) THEN "idle" ELSE "init"
  /\ UNCHANGED <<line, ptr, args, out, overrun, history>>

Call(call) ==
  /\ pc = "idle" /\ Len(history) < MaxCalls
  /\ pc' = "scan" /\ ptr' = Start(call.format) /\ args' = call.args
  /\ history' = Append(history, call)
  /\ UNCHANGED <<uart, line, step, out, overrun>>

AtPercent == pc = "scan" /\ rodata[ptr] = Percent
AfterConversion == ptr + 2

(* The characters a conversion or a character of the format gives.         *)
Give(text, next) ==
  /\ out' = text /\ ptr' = next
  /\ pc' = IF text = <<>> THEN "scan" ELSE "put"

(* va_arg                                                                  *)
NextArg == IF args = <<>> THEN Leftovers ELSE {Head(args)}
TakeArg == args' = IF args = <<>> THEN args ELSE Tail(args)

EndOfText == /\ pc = "scan" /\ rodata[ptr] = NUL
             /\ pc' = "idle"
             /\ UNCHANGED <<uart, line, step, ptr, args, out, overrun, history>>

Plain == /\ pc = "scan" /\ rodata[ptr] \notin {NUL, Percent}
         /\ Give(<<rodata[ptr]>>, ptr + 1)
         /\ UNCHANGED <<uart, line, step, args, overrun, history>>

(* %%, and a letter that means nothing (the terminator, too).              *)
NoArgument ==
  /\ AtPercent /\ rodata[ptr + 1] \notin DOMAIN Base \cup {Str, Chr}
  /\ Give(IF rodata[ptr + 1] = Percent THEN <<Percent>> ELSE <<>>, AfterConversion)
  /\ UNCHANGED <<uart, line, step, args, overrun, history>>

(* debug_puti: the digits are counted, then stored from the last to the    *)
(* first, each the remainder of what the divisions before it left.         *)
Counted(n, base) ==
  CHOOSE k \in 0 .. Width :
    After(n, base)[k] = 0 /\ (k = 0 \/ After(n, base)[k - 1] # 0)

DigitStored(n, base, k) == After(n, base)[k] % base

puti(n, base) ==
  IF n = 0 THEN <<48>>
  ELSE [i \in 1 .. Counted(n, base) |-> Digit(DigitStored(n, base, Counted(n, base) - i))]

(* buf[count] = 0 past buf hits something else on the stack or nothing.    *)
NumberArgument ==
  /\ AtPercent /\ rodata[ptr + 1] \in DOMAIN Base
  /\ \E n \in NextArg :
       LET base == Base[rodata[ptr + 1]]
           past == n # 0 /\ Counted(n, base) >= Width
       IN  /\ overrun' = (overrun \/ past)
           /\ \/ Give(puti(n, base), AfterConversion)
              \/ past /\ pc' = "wild" /\ UNCHANGED <<out, ptr>>
  /\ TakeArg
  /\ UNCHANGED <<uart, line, step, history>>

(* debug_puts of a pointer that was not passed shows whatever lies there.  *)
TextArg == IF args = <<>> THEN LeftoverTexts ELSE {Head(args)}

StringArgument ==
  /\ AtPercent /\ rodata[ptr + 1] = Str
  /\ \/ \E text \in TextArg : Give(text, AfterConversion)
     \/ args = <<>> /\ pc' = "wild" /\ UNCHANGED <<out, ptr>>
  /\ TakeArg
  /\ UNCHANGED <<uart, line, step, overrun, history>>

ToChar(arg) == arg % 256

CharArgument ==
  /\ AtPercent /\ rodata[ptr + 1] = Chr
  /\ \E n \in NextArg : Give(<<ToChar(n)>>, AfterConversion)
  /\ TakeArg
  /\ UNCHANGED <<uart, line, step, overrun, history>>

(* LSR bit 5: nothing is left to send.                                     *)
Ready == uart.fifo = <<>>

putc == /\ pc = "put" /\ Ready
        /\ uart' = outb(uart, 0, Head(out))
        /\ out' = Tail(out)
        /\ pc' = IF Tail(out) = <<>> THEN "scan" ELSE "put"
        /\ UNCHANGED <<line, step, ptr, args, overrun, history>>

Step == \/ InitWrite \/ EndOfText \/ Plain \/ NoArgument
        \/ NumberArgument \/ StringArgument \/ CharArgument \/ putc

Next == Send \/ Step \/ \E call \in Calls : Call(call)

(* The kernel runs nothing else, and a port that holds a character sends   *)
(* it.                                                                     *)
Spec == Init /\ [][Next]_vars /\ WF_vars(Step) /\ WF_vars(Send)

-----------------------------------------------------------------------------
(* Only base 2 can need more than buf: debug_puti stores past its buffer   *)
(* only when it was asked for a number with the top bit set in base 2, or  *)
(* for one that was not passed (buf[count] = 0).                           *)
BufferKept ==
  overrun => \E k \in DOMAIN history : FillsBuffer(history[k]) \/ LacksNumber(history[k])

(* The loop of debug_printf stays within the string it was called with,    *)
(* whatever the conversions, unless that string ends with a lone % (msg++  *)
(* in the loop and after the %).                                           *)
StaysInFormat ==
  pc \in {"scan", "put"} =>
    LET call == Last(history)
    IN  \/ EndsWithPercent(call)
        \/ ptr \in Start(call.format) .. Start(call.format) + Len(FlattenSeq(Formats[call.format]))

(* A step of debug_printf brings the call nearer to its end, whatever the  *)
(* format and however few the arguments: msg stays in the format and goes  *)
(* on in the kernel image, which it does not leave, or debug_putc has      *)
(* fewer characters to put, or it is the last step. The wait for the port  *)
(* is no step (that it ends is of OnConsole), and nothing is said of what  *)
(* follows a broken stack or a pointer to nowhere ("wild").                *)
PrintfAdvances ==
  [][/\ StaysInFormat'
     /\ kernel' # kernel /\ pc \in {"scan", "put"} =>
          \/ pc' \in {"idle", "wild"}
          \/ ptr' \in ptr + 1 .. Len(rodata)
          \/ ptr' = ptr /\ Len(out') \in 0 .. Len(out) - 1]_vars

(* Everything that callers asked for before the first call without a       *)
(* meaning is shown: no character is lost to a port that is not ready, set *)
(* at a wrong speed, or doubled, every number is its numeral, and          *)
(* debug_putc does not wait for ever. Ahead of it the line may carry the   *)
(* test byte that debug_init sends to itself, since it leaves the loop     *)
(* without waiting.                                                        *)
Meant ==
  LET careless == {k \in DOMAIN history : history[k] \notin Careful}
      upTo     == IF careless = {} THEN Len(history)
                  ELSE (CHOOSE k \in careless : \A j \in careless : k <= j) - 1
  IN  FlattenSeq([k \in 1 .. upTo |-> Texts[history[k]]])

Heard == LET sent == IF line # <<>> /\ Head(line) = TestByte THEN Tail(line) ELSE line
         IN  SubSeq(sent, 1, IF Len(sent) < Len(Meant) THEN Len(sent) ELSE Len(Meant))

OnConsole == INSTANCE Console WITH
  Texts <- {Texts[call] : call \in Careful}, asked <- Meant, shown <- Heard

ImplementsConsole == OnConsole!Spec

==============================================================================
