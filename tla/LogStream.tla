------------------------------ MODULE LogStream ------------------------------
(***************************************************************************)
(* The text of one log line: LogStream's operators << on its FixedBuffer,  *)
(* and what the Logger (src/logger/Logging.cc) puts before and after the   *)
(* user's text.  A text is a sequence of symbols; digits are symbols of    *)
(* their own, a word of the user's or of the layout is one symbol.         *)
(***************************************************************************)
EXTENDS Integers, Sequences, SequencesExt

CONSTANTS
    kSmallBuffer,       \* SIZE of the line's FixedBuffer
    kMaxNumericSize

ASSUME LogStreamAssumptions ==
    kSmallBuffer \in Nat /\ kMaxNumericSize \in 1..kSmallBuffer

avail(buf) == kSmallBuffer - Len(buf)

(* FixedBuffer::append: all of it or nothing. *)
append(buf, text) == IF avail(buf) > Len(text) THEN buf \o text ELSE buf

digits == <<"9", "8", "7", "6", "5", "4", "3", "2", "1", "0",
            "1", "2", "3", "4", "5", "6", "7", "8", "9">>

zero(remainder) == digits[10 + remainder]

(* / of C rounds towards 0, and % has the sign of the dividend. *)
Quotient(num) == IF num >= 0 THEN num \div 10 ELSE -((-num) \div 10)
Remainder(num) == num - 10 * Quotient(num)

(* Fault for LineIsStatement: the loop runs while num is positive. *)
MoreDigitsIfPositive(num) == num > 0

MoreDigits(num) == num # 0

(* The digits, last one first. *)
Backwards[num \in Int] ==
    <<zero(Remainder(num))>>
    \o IF MoreDigits(Quotient(num)) THEN Backwards[Quotient(num)] ELSE <<>>

Numeral(num) == Reverse(Backwards[num] \o IF num < 0 THEN <<"-">> ELSE <<>>)

formatInteger(buf, num) ==
    IF avail(buf) >= kMaxNumericSize THEN buf \o Numeral(num) ELSE buf

-----------------------------------------------------------------------------
(* What one << is given: a text, or a number for the integer overloads.    *)
Piece == [text : Seq(STRING)] \cup [num : Int]

Text(t) == [text |-> t]
Num(n) == [num |-> n]

Put(buf, piece) ==
    IF "num" \in DOMAIN piece THEN formatInteger(buf, piece.num)
                              ELSE append(buf, piece.text)

PutAll(pieces) ==
    LET Upto[i \in 0..Len(pieces)] ==
            IF i = 0 THEN <<>> ELSE Put(Upto[i - 1], pieces[i])
    IN  Upto[Len(pieces)]

(* SourceFile: the path behind its last slash. *)
SourceFile(path) ==
    SubSeq(path, 1 + SelectLastInSeq(path, LAMBDA c : c = "/"), Len(path))

(* formatTime: 17 of the 19 characters of the time, which ends before the  *)
(* seconds, and the microseconds.                                          *)
formatTime == <<Text(<<"date", "hour", "minute">>), Text(<<"micros">>)>>

(* Impl::Impl, with the function's name that LOG_DEBUG adds. *)
Prefix(s) ==
    formatTime \o <<Text(<<s.level>>)>>
    \o IF s.level = "DEBUG" THEN <<Text(<<s.func>>), Text(<<"sp">>)>> ELSE <<>>

finish(s) ==
    <<Text(<<"-">>), Text(SourceFile(s.file)), Text(<<":">>), Num(s.line),
      Text(<<"nl">>)>>

(* One LOG_ statement, from the constructor to the destructor. *)
Pieces(s) == Prefix(s) \o s.args \o finish(s)
LogLine(s) == PutAll(Pieces(s))
=============================================================================
