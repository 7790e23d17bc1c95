------------------------------- MODULE Lines -------------------------------
(***************************************************************************)
(* A line of the receiver's log on its way over the serial port, and what  *)
(* its two readers take from it: the server's parseFast and easy_server's  *)
(* parsePayload.  A reader may open the port, or lose it, in the middle of *)
(* a line, and a receiver may restart in the middle of one.                *)
(*                                                                         *)
(* A line is a sequence of characters, the log's level and time one "I".   *)
(* A parser's result is the four numbers, or <<>> when it refuses the line.*)
(***************************************************************************)
EXTENDS Integers, Sequences, FiniteSetsExt, Functions

CONSTANTS
  PrintedReadings,  \* what is printed: four numbers each
  Alphabet,         \* the characters of an arbitrary payload
  MaxLength         \* bound: so many characters in an arbitrary payload

(* What is printed are the fields of a packet.                             *)
Printable(r) ==
  /\ r \in Int \X Nat \X Nat \X Nat
  /\ r[1] >= -32768 /\ r[1] < 32768 /\ r[2] < 65536 /\ r[3] < 16777216 /\ r[4] < 65536

(* Atoi alone takes a "+", and TrimSpace white space other than the space. *)
(* A text that a parser takes has three commas at least, so its numbers    *)
(* have at most MaxLength - 3 digits: 9 of them fit into an int of 32 bits,*)
(* and more would overflow in the two parsers written by hand.             *)
LibraryOnly == {"+", "\t", "\f", "\r"}

ASSUME LinesAssumption ==
  /\ \A r \in PrintedReadings : Printable(r)
  /\ Alphabet \cap LibraryOnly = {} /\ MaxLength \in 0 .. 12

VARIABLES
  logged,  \* the reading printed, <<>> when the text is an arbitrary one
  line,    \* what the reader gets: one line of its scanner
  torn     \* the reader does not get the whole line

lineVars == <<logged, line, torn>>

Comma == ","
Blank == " "
Tag == <<"q", "f">>
Digits == <<"0", "1", "2", "3", "4", "5", "6", "7", "8", "9">>
IsDigit(c) == c \in Range(Digits)
DigitOf(c) == (CHOOSE k \in DOMAIN Digits : Digits[k] = c) - 1
Value(digits) ==
  LET value[n \in 0 .. Len(digits)] ==
        IF n = 0 THEN 0 ELSE 10 * value[n - 1] + DigitOf(digits[n])
  IN  value[Len(digits)]

-----------------------------------------------------------------------------
(* The line that ESP_LOGI prints.                                          *)
Natural(n) ==
  LET natural[m \in 0 .. n] ==
        IF m < 10 THEN <<Digits[m + 1]>>
        ELSE Append(natural[m \div 10], Digits[(m % 10) + 1])
  IN  natural[n]
Decimal(n) == IF n < 0 THEN <<"-">> \o Natural(-n) ELSE Natural(n)

Header == <<"I", "q", "f", ":", Blank>>
Printed(r) ==
  Header \o Decimal(r[1]) \o <<Comma>> \o Decimal(r[2]) \o <<Comma>> \o Decimal(r[3])
    \o <<Comma>> \o Decimal(r[4])

(* strings.Index: where a text starts in another one, 0 for nowhere.       *)
IndexOf(text, s) ==
  LET at == {i \in 1 .. Len(s) + 1 - Len(text) : 
                 \A k \in DOMAIN text : s[i + k - 1] = text[k]}
  IN  IF at = {} THEN 0 ELSE Min(at)

-----------------------------------------------------------------------------
(* parseInt reads a number from index i on: where it ends, and its value.  *)
PastSign(s, i) == IF i <= Len(s) /\ s[i] = "-" THEN i + 1 ELSE i
PastDigits(s, i) == Min({j \in i .. Len(s) + 1 : j > Len(s) \/ ~IsDigit(s[j])})

parseInt(s, i) ==
  LET start == PastSign(s, i)
      next == PastDigits(s, start)
      magnitude == Value(SubSeq(s, start, next - 1))
  IN  [ok |-> next > start, next |-> next, val |-> IF start = i THEN magnitude ELSE -magnitude]

(* Four numbers with a comma after each but the last; they follow the colon*)
(* and its spaces.                                                         *)
FourNumbers(s, i) ==
  LET int1 == parseInt(s, i)
      int2 == parseInt(s, int1.next + 1)
      int3 == parseInt(s, int2.next + 1)
      int4 == parseInt(s, int3.next + 1)
      CommaAt(j) == j <= Len(s) /\ s[j] = Comma
  IN  IF /\ int1.ok /\ CommaAt(int1.next) /\ int2.ok /\ CommaAt(int2.next)
         /\ int3.ok /\ CommaAt(int3.next) /\ int4.ok
      THEN <<int1.val, int2.val, int3.val, int4.val>> ELSE <<>>

parseFast(s) ==
  LET tagPos == IndexOf(Tag, s)
      colons == {i \in tagPos + Len(Tag) .. Len(s) : s[i] = ":"}
      first == Min({i \in Min(colons) + 1 .. Len(s) + 1 : i > Len(s) \/ s[i] # Blank})
  IN  IF tagPos # 0 /\ colons # {} THEN FourNumbers(s, first) ELSE <<>>

(* parsePayload goes over the characters, and a comma after the last one.  *)
Begin == [ok |-> TRUE, out |-> <<>>, val |-> 0, neg |-> FALSE]

Advance_SignAnywhere(state, c) ==
  CASE ~state.ok -> state
    [] state.ok /\ c = "-" /\ ~state.neg -> [state EXCEPT !.neg = TRUE]
    [] state.ok /\ IsDigit(c) -> [state EXCEPT !.val = 10 * @ + DigitOf(c)]
    [] state.ok /\ c = Comma /\ Len(state.out) < 4 ->
         [Begin EXCEPT !.out = Append(state.out, IF state.neg THEN -state.val ELSE state.val)]
    [] OTHER -> [state EXCEPT !.ok = FALSE]
Advance(state, c) ==
  CASE ~state.ok -> state
    [] state.ok /\ c = "-" /\ ~state.neg /\ state.val = 0 -> [state EXCEPT !.neg = TRUE]
    [] state.ok /\ IsDigit(c) -> [state EXCEPT !.val = 10 * @ + DigitOf(c)]
    [] state.ok /\ c = Comma /\ Len(state.out) < 4 ->
         [Begin EXCEPT !.out = Append(state.out, IF state.neg THEN -state.val ELSE state.val)]
    [] OTHER -> [state EXCEPT !.ok = FALSE]

Consume(data) ==
  LET after[n \in 0 .. Len(data)] ==
        IF n = 0 THEN Begin ELSE Advance(after[n - 1], data[n])
  IN  after[Len(data)]

parsePayload_TooFew(s) ==
  LET start == IndexOf(Tag \o <<":", Blank>>, s)
      end == Consume(Append(SubSeq(s, start + Len(Tag) + 2, Len(s)), Comma))
  IN  IF start # 0 /\ end.ok THEN SubSeq(end.out \o <<0, 0, 0>>, 1, 4) ELSE <<>>
parsePayload(s) ==
  LET start == IndexOf(Tag \o <<":", Blank>>, s)
      end == Consume(Append(SubSeq(s, start + Len(Tag) + 2, Len(s)), Comma))
  IN  IF start # 0 /\ end.ok /\ Len(end.out) = 4 THEN end.out ELSE <<>>

-----------------------------------------------------------------------------
Characters == Range(Digits) \cup Range(Header) \cup {"-", Comma, "e", "t", "s"}

LineTypeOK ==
  /\ logged \in PrintedReadings \cup {<<>>} /\ torn \in BOOLEAN
  /\ Range(line) \subseteq Characters \cup Alphabet

(* A printed line; or the beginning of an arbitrary text after the tag, in *)
(* which the parsers are compared with the one the tests hold them against.*)
LineInit ==
  /\ torn = FALSE
  /\ \/ logged \in PrintedReadings /\ line = Printed(logged)
     \/ logged = <<>> /\ line = Header

(* Only a part of the line is read.  The scanner gives its reader the part *)
(* of a line that came before the port was lost (ScanLines at the end).    *)
Tear ==
  /\ logged # <<>> /\ ~torn /\ torn' = TRUE
  /\ \E i, j \in 0 .. Len(line) : line' = SubSeq(line, i + 1, Len(line) - j)
  /\ UNCHANGED logged

(* The receiver restarts in a line; its loader's first words follow.       *)
Restart ==
  /\ logged # <<>> /\ ~torn /\ torn' = TRUE
  /\ \E j \in 0 .. Len(line) : line' = SubSeq(line, 1, j) \o <<"e", "t", "s">>
  /\ UNCHANGED logged

(* Any text after the tag, one more character at a time.                   *)
TypeCharacter ==
  /\ logged = <<>> /\ Len(line) < Len(Header) + MaxLength
  /\ \E c \in Alphabet : line' = Append(line, c)
  /\ UNCHANGED <<logged, torn>>

LineNext == Tear \/ Restart \/ TypeCharacter

LineSpec == LineInit /\ [][LineNext]_lineVars

-----------------------------------------------------------------------------
(* Both readers take from a whole line the numbers that were printed.      *)
WholeLinesUnderstood ==
  logged # <<>> /\ ~torn => parseFast(line) = logged /\ parsePayload(line) = logged

(* Of a line that is torn, or that a restart cuts short, a reader takes    *)
(* nothing, or the right temperature, humidity and pressure: only the last *)
(* number may lack digits, since nothing tells that a line is complete     *)
(* (serial.go:161-164, easy_server/main.go:50-57).                         *)
LeadingDigits(n) == {Value(SubSeq(Natural(n), 1, k)) : k \in 0 .. Len(Natural(n))}

NearlyRight ==
  logged # <<>> => \A out \in {parseFast(line), parsePayload(line)} \ {<<>>} :
    SubSeq(out, 1, 3) = SubSeq(logged, 1, 3) /\ out[4] \in LeadingDigits(logged[4])

(* So a line is understood when it is whole, and not misunderstood when it *)
(* is not, but for its last number.                                        *)
LinesUnderstood == WholeLinesUnderstood /\ NearlyRight

(* parsePayloadStrings, against which the tests hold the parsers: split at *)
(* the commas and convert each of the four parts with Atoi.                *)
Unsigned(s) == IF s # <<>> /\ s[1] = "-" THEN Tail(s) ELSE s
IsInt(s) == Unsigned(s) # <<>> /\ \A i \in DOMAIN Unsigned(s) : IsDigit(Unsigned(s)[i])
Atoi(s) == IF s[1] = "-" THEN -Value(Unsigned(s)) ELSE Value(s)

Trimmed(s) ==
  LET kept == {i \in DOMAIN s : s[i] # Blank}
  IN  IF kept = {} THEN <<>> ELSE SubSeq(s, Min(kept), Max(kept))

Commas(data) == {i \in DOMAIN data : data[i] = Comma}
Pieces(data) ==
  LET commas == Commas(data)
      middle == Min(commas \ {Min(commas)})
  IN  <<SubSeq(data, 1, Min(commas) - 1), SubSeq(data, Min(commas) + 1, middle - 1),
        SubSeq(data, middle + 1, Max(commas) - 1), SubSeq(data, Max(commas) + 1, Len(data))>>

FourInts(data) ==
  IF Cardinality(Commas(data)) = 3 /\ \A k \in 1 .. 4 : IsInt(Pieces(data)[k])
  THEN [k \in 1 .. 4 |-> Atoi(Pieces(data)[k])] ELSE <<>>
parsePayloadStrings(s) ==
  LET start == IndexOf(Tag \o <<":">>, s)
  IN  IF start # 0 THEN FourInts(Trimmed(SubSeq(s, start + Len(Tag) + 1, Len(s)))) ELSE <<>>

(* parseFast takes from any text what parsePayloadStrings takes from its   *)
(* longest prefix that it takes anything from, and nothing if there is none*)
(* (easy_server/main_test.go:18-58, serial.go:110-165).                    *)
FastIsReference ==
  LET Prefix(i) == SubSeq(line, 1, i)
      accepted == {i \in Len(Header) .. Len(line) : parsePayloadStrings(Prefix(i)) # <<>>}
  IN  logged = <<>> =>
        parseFast(line) = IF accepted = {} THEN <<>> ELSE parsePayloadStrings(Prefix(Max(accepted)))

(* parsePayload takes the same as parsePayloadStrings from a text that has *)
(* no further spaces, whenever parsePayloadStrings takes anything.         *)
PayloadCoversReference ==
  LET reference == parsePayloadStrings(line)
  IN  logged = <<>> /\ reference # <<>> /\ Cardinality({i \in DOMAIN line : line[i] = Blank}) = 1
        => parsePayload(line) = reference

(* What parsePayload takes besides, and the reference refuses, are parts   *)
(* that have no digits, read as 0, and parts with zeros before their sign: *)
(* it looks at digits and signs one at a time (easy_server/main.go:63-90), *)
(* and a sign is in order as long as the value is 0.  The tests call an    *)
(* empty part refused (main_test.go:38-55, 84-87).                         *)
IsLoose(part) ==
  \A i \in DOMAIN part : IsDigit(part[i]) \/ (part[i] = "-" /\ \A j \in 1 .. i - 1 : part[j] = "0")
LooseValue(part) ==
  LET signs == {i \in DOMAIN part : part[i] = "-"}
  IN  IF signs = {} THEN Value(part) ELSE -Value(SubSeq(part, Min(signs) + 1, Len(part)))
LooseInts(data) ==
  IF Cardinality(Commas(data)) = 3 /\ \A k \in 1 .. 4 : IsLoose(Pieces(data)[k])
  THEN [k \in 1 .. 4 |-> LooseValue(Pieces(data)[k])] ELSE <<>>

(* parsePayload takes from any text four such parts, with nothing else in  *)
(* it, and refuses every other text.                                       *)
PayloadIsLoose ==
  logged = <<>> => parsePayload(line) = LooseInts(SubSeq(line, Len(Header) + 1, Len(line)))

(* How far the two parsers agree with the tests' one on a text after the   *)
(* tag: parseFast makes the same of it, up to what it ignores at the end;  *)
(* parsePayload makes the same of it when the tests' one takes it and it   *)
(* has no further spaces, and takes of the others only those whose parts   *)
(* are loose.  They do disagree: parsePayload takes <,,,> as four zeros.   *)
ParsersMeetReference == FastIsReference /\ PayloadCoversReference /\ PayloadIsLoose
=============================================================================
