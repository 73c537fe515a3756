-------------------------------- MODULE Resp --------------------------------
(***************************************************************************)
(* The wire protocol of lsmkv-server (resp.rs): requests read off the      *)
(* front of whatever has arrived, replies written to the wire.             *)
(*                                                                         *)
(* The wire is a sequence of cells.  A cell is a punctuation byte, a whole *)
(* number in decimal, or a word: a piece of text that nothing here looks   *)
(* into, of length one.  A string is a sequence of cells.                  *)
(***************************************************************************)
EXTENDS Integers, SequencesExt

CONSTANTS
  MaxArgs,    \* MAX_ARGS
  MaxBulk,    \* MAX_BULK
  MaxInline,  \* MAX_INLINE
  Upper       \* to_uppercase on the words it changes: a function

CR == "\r"
LF == "\n"

\* integer: a number cell and nothing else.
Numbers == -1 .. 12
NotANumber == -99
Decimal == [cell \in {ToString(n) : n \in Numbers} |->
              CHOOSE n \in Numbers : ToString(n) = cell]
Integer(cells) ==
  IF Len(cells) = 1 /\ cells[1] \in DOMAIN Decimal THEN Decimal[cells[1]]
  ELSE NotANumber

Incomplete == [tag |-> "incomplete"]
ProtocolError(detail) == [tag |-> "error", detail |-> detail]
Empty(at) == [tag |-> "empty", used |-> at]
Command(name, args, at) ==
  [tag |-> "command", used |-> at,
   command |-> [name |-> [i \in DOMAIN name |->
                            IF name[i] \in DOMAIN Upper THEN Upper[name[i]]
                            ELSE name[i]],
                args |-> args]]

\* line: the cells after the first from, up to the next CR LF, and the length
\* of everything through it.
Ends(input, from) ==
  {i \in from + 1 .. Len(input) - 1 : input[i] = CR /\ input[i + 1] = LF}
HasLine(input, from) == Ends(input, from) # {}
Line(input, from) == SubSeq(input, from + 1, Min(Ends(input, from)) - 1)
PastLine(input, from) == Min(Ends(input, from)) + 1

\* The length and the bytes of a bulk string, the terminator included.
BulkBody(input, from) ==
  LET len == Integer(Line(input, from))
      at == PastLine(input, from)
  IN  IF ~HasLine(input, from) THEN Incomplete
      ELSE IF len \notin 0 .. MaxBulk THEN ProtocolError("bulk length")
      ELSE IF Len(input) < at + len + 2 THEN Incomplete
      ELSE IF SubSeq(input, at + len + 1, at + len + 2) # <<CR, LF>>
           THEN ProtocolError("unbalanced bulk")
      ELSE [tag |-> "bulk", bytes |-> SubSeq(input, at + 1, at + len),
            used |-> at + len + 2]

\* Mutant: an argument that has not arrived reads as a wrong one.
BulkHasty(input, from) ==
  IF Len(input) <= from THEN ProtocolError("expected $")
  ELSE IF input[from + 1] # "$" THEN ProtocolError("expected $")
  ELSE BulkBody(input, from + 1)

\* bulk: one $len CR LF bytes CR LF after the first from cells.
Bulk(input, from) ==
  IF Len(input) <= from THEN Incomplete
  ELSE IF input[from + 1] # "$" THEN ProtocolError("expected $")
  ELSE BulkBody(input, from + 1)

\* The first count bulk strings, or what stopped them.
Bulks(input, start, count) ==
  LET read[n \in 0 .. count] ==
        IF n = 0 THEN [tag |-> "bulks", args |-> << >>, used |-> start]
        ELSE LET before == read[n - 1]
                 bulk == Bulk(input, before.used)
             IN  IF before.tag # "bulks" THEN before
                 ELSE IF bulk.tag # "bulk" THEN bulk
                 ELSE [tag |-> "bulks", used |-> bulk.used,
                       args |-> Append(before.args, bulk.bytes)]
  IN  read[count]

ParseArray(input) ==
  LET count == Integer(Line(input, 1))
      at == PastLine(input, 1)
      bulks == Bulks(input, at, count)
  IN  IF ~HasLine(input, 1) THEN Incomplete
      ELSE IF count = NotANumber THEN ProtocolError("multibulk length")
      ELSE IF count <= 0 THEN Empty(at)
      ELSE IF count > MaxArgs THEN ProtocolError("multibulk length")
      ELSE IF bulks.tag # "bulks" THEN bulks
      ELSE Command(Head(bulks.args), Tail(bulks.args), bulks.used)

\* The words of a line, split at whitespace.
Words(cells) ==
  LET Space(i) == cells[i] \in {" ", CR}
      starts == SetToSortSeq({i \in DOMAIN cells :
                   ~Space(i) /\ (i = 1 \/ Space(i - 1))}, <)
      End(i) == Max({j \in i .. Len(cells) : \A k \in i .. j : ~Space(k)})
  IN  [w \in DOMAIN starts |-> SubSeq(cells, starts[w], End(starts[w]))]

ParseInline(input) ==
  LET feeds == {i \in DOMAIN input : input[i] = LF}
      end == Min(feeds)
      words == Words(SubSeq(input, 1, end - 1))
  IN  IF feeds = {}
      THEN IF Len(input) > MaxInline THEN ProtocolError("too big inline")
           ELSE Incomplete
      ELSE IF words = << >> THEN Empty(end)
      ELSE Command(Head(words), Tail(words), end)

\* parse: one request off the front of the input, if a whole one is there.
Parse(input) ==
  IF input = << >> THEN Incomplete
  ELSE IF input[1] = "*" THEN ParseArray(input)
  ELSE ParseInline(input)

----------------------------------------------------------------------------
(* Replies *)

Simple(text) == [tag |-> "simple", text |-> text]
Error(text) == [tag |-> "error", text |-> text]
IntegerReply(value) == [tag |-> "integer", value |-> value]
BulkReply(bytes) == [tag |-> "bulk", bytes |-> bytes]
Nil == [tag |-> "nil"]
Array(items) == [tag |-> "array", items |-> items]

RECURSIVE Encode(_)
Encode(r) ==
  CASE r.tag = "simple"  -> <<"+">> \o r.text \o <<CR, LF>>
    [] r.tag = "error"   -> <<"-">> \o r.text \o <<CR, LF>>
    [] r.tag = "integer" -> <<":", ToString(r.value), CR, LF>>
    [] r.tag = "bulk"    -> <<"$", ToString(Len(r.bytes)), CR, LF>>
                              \o r.bytes \o <<CR, LF>>
    [] r.tag = "nil"     -> <<"$", "-1", CR, LF>>
    [] r.tag = "array"   -> <<"*", ToString(Len(r.items)), CR, LF>>
         \o FlattenSeq([i \in DOMAIN r.items |-> Encode(r.items[i])])

\* Reference: how a client reads one reply off the front of what it received.
RECURSIVE Decode(_), DecodeItems(_, _)
DecodeItems(wire, count) ==
  IF count = 0 THEN [items |-> << >>, rest |-> wire]
  ELSE LET first == Decode(wire)
           others == DecodeItems(first.rest, count - 1)
       IN  [items |-> <<first.reply>> \o others.items, rest |-> others.rest]
Decode(wire) ==
  LET head == Line(wire, 1)
      at == PastLine(wire, 1)
      rest == SubSeq(wire, at + 1, Len(wire))
      n == Integer(head)
      array == DecodeItems(rest, n)
  IN  CASE wire[1] = "+" -> [reply |-> Simple(head), rest |-> rest]
        [] wire[1] = "-" -> [reply |-> Error(head), rest |-> rest]
        [] wire[1] = ":" -> [reply |-> IntegerReply(n), rest |-> rest]
        [] wire[1] = "$" /\ n = -1 -> [reply |-> Nil, rest |-> rest]
        [] wire[1] = "$" /\ n >= 0 ->
             [reply |-> BulkReply(SubSeq(rest, 1, n)),
              rest |-> SubSeq(rest, n + 3, Len(rest))]
        [] wire[1] = "*" ->
             [reply |-> Array(array.items), rest |-> array.rest]

RECURSIVE DecodeAll(_)
DecodeAll(wire) ==
  IF wire = << >> THEN << >>
  ELSE LET first == Decode(wire) IN <<first.reply>> \o DecodeAll(first.rest)
=============================================================================
