-------------------------- MODULE StringFunctions --------------------------
(***************************************************************************)
(* The string functions.  A call is bound once: the functions that search  *)
(* fold a constant pattern, and compile it, at this point.  The rows of    *)
(* the batch are then evaluated one after the other; a NULL argument gives *)
(* NULL, and a function that builds its result does so in one buffer that  *)
(* all the rows share.                                                     *)
(*                                                                         *)
(* A string is a sequence of characters; "ee" stands for a letter of two   *)
(* bytes.  An argument is <<>> for NULL, or <<v>>.  What a row does is     *)
(* [tag, val]: "ok", "null", "unset" (the row of the output keeps whatever *)
(* was there), "panic", or "loops" (the thread counts to 2^64).            *)
(***************************************************************************)
EXTENDS Integers, Sequences, FiniteSets, SequencesExt

CONSTANTS
  Letters,     \* characters of the strings that are searched and cut
  MaxText,     \* longest string
  Counts       \* the numbers passed as positions and lengths

VARIABLES
  call,      \* the function, its rows of arguments, whether the pattern is constant
  buf,       \* the string buffer shared by the rows
  out,       \* what each evaluated row gave
  stage      \* "bind", "execute", "done" or "error"

vars == <<call, buf, out, stage>>

Ok(v) == [tag |-> "ok", val |-> <<v>>]
Null == [tag |-> "null", val |-> <<>>]
Unset == [tag |-> "unset", val |-> <<>>]
Panic == [tag |-> "panic", val |-> <<>>]
Loops == [tag |-> "loops", val |-> <<>>]

Take(s, n) == SubSeq(s, 1, n)
Drop(s, n) == SubSeq(s, n + 1, Len(s))
Repeated(s, n) == IF n <= 0 THEN <<>> ELSE FlattenSeq([i \in 1..n |-> s])
SmallestOf(S) == CHOOSE i \in S : \A j \in S : i <= j

-----------------------------------------------------------------------------
(* Characters.                                                             *)

Width(c) == IF c \in {"ee", "EE"} THEN 2 ELSE 1
Upper(c) == CASE c = "a" -> "A" [] c = "b" -> "B" [] c = "ee" -> "EE" [] OTHER -> c
Lower(c) == CASE c = "A" -> "a" [] c = "B" -> "b" [] c = "EE" -> "ee" [] OTHER -> c
IsAlphabetic(c) == c \in {"a", "b", "A", "B", "ee", "EE"}
Code(c) == CASE c = "A" -> 65 [] c = "a" -> 97 [] c = "b" -> 98 [] c = "ee" -> 233
             [] OTHER -> 32

Bytes(s) == FoldLeft(LAMBDA n, c : n + Width(c), 0, s)

-----------------------------------------------------------------------------
(* One definition for each function: the row the closure computes.         *)

ascii(s) == IF s = <<>> THEN 0 ELSE Code(s[1])

upper(s) == [i \in DOMAIN s |-> Upper(s[i])]

lower(s) == [i \in DOMAIN s |-> Lower(s[i])]

length(s) == Len(s)

byte_length(s) == Bytes(s)

bit_length(s) == 8 * Bytes(s)

\* A function that builds its result writes it into the buffer b, which still
\* holds the result of the row before and is emptied first.
Cleared(b) == <<>>

\* One argument is copied; two or more are put together in the buffer.
concat(b, parts) == IF Len(parts) = 1 THEN parts[1] ELSE Cleared(b) \o FlattenSeq(parts)

reverse(b, s) == Cleared(b) \o FoldLeft(LAMBDA t, c : <<c>> \o t, <<>>, s)

\* The letter after the start, a blank or a separator is upper case.
initcap(b, s) ==
  FoldLeft(LAMBDA acc, c :
             IF IsAlphabetic(c)
             THEN [text |-> Append(acc.text, IF acc.next THEN Upper(c) ELSE Lower(c)),
                   next |-> FALSE]
             ELSE [text |-> Append(acc.text, c), next |-> c \in {" ", "-"}],
           [text |-> Cleared(b), next |-> TRUE], s).text

left(s, count) ==
  CASE count = 0 -> <<>>
    [] count < 0 -> IF -count >= Len(s) THEN <<>> ELSE Take(s, Len(s) + count)
    [] OTHER -> IF count < Len(s) THEN Take(s, count) ELSE s

right(s, count) ==
  CASE count = 0 -> <<>>
    [] count < 0 -> IF -count >= Len(s) THEN <<>> ELSE Drop(s, -count)
    [] OTHER -> IF count >= Len(s) THEN s ELSE Drop(s, Len(s) - count)

\* from - 1 is turned into an unsigned number, so that a position before the
\* first character becomes a number of steps nobody waits for.
substring_from(s, from) ==
  IF from < 1 THEN Loops ELSE Ok(Drop(s, from - 1))

\* A negative count is an unsigned number larger than any string.
substring_from_count(s, from, count) ==
  IF from < 1 THEN Loops
  ELSE LET rest == Drop(s, from - 1)
       IN  Ok(IF count >= 0 /\ count < Len(rest) THEN Take(rest, count) ELSE rest)

repeat(b, s, num) == Cleared(b) \o Repeated(s, num)

\* Cuts n characters off the end, or nothing when there are fewer.
TrimLast(s, n) == IF n <= Len(s) THEN Take(s, Len(s) - n) ELSE s

\* A string is cut to the length of its first n bytes.
ByteSlice(s, n) ==
  LET ends == {k \in 0..Len(s) : Bytes(Take(s, k)) = n}
  IN  IF n < 0 \/ ends = {} THEN Panic ELSE Ok(Take(s, SmallestOf(ends)))

\* Pads until at least n characters are there; what is too much is trimmed.
Padding(n, pad) == Repeated(pad, (n + Len(pad) - 1) \div Len(pad))

MutBufferKept(b, s, count, pad) ==
  CASE pad = <<>> -> Ok(s)
    [] pad # <<>> /\ Len(s) > count -> ByteSlice(s, count)
    [] OTHER ->
         LET filled == b \o Padding(count - Len(s), pad)
             rem == Len(Padding(count - Len(s), pad)) - (count - Len(s))
         IN  Ok(TrimLast(filled, rem) \o s)
lpad(b, s, count, pad) ==
  CASE pad = <<>> -> Ok(Cleared(b) \o s)
    [] pad # <<>> /\ Len(s) > count -> ByteSlice(s, count)
    [] OTHER ->
         LET filled == Cleared(b) \o Padding(count - Len(s), pad)
         IN  Ok(TrimLast(filled, Len(filled) - (count - Len(s))) \o s)

rpad(b, s, count, pad) ==
  CASE pad = <<>> -> Ok(Cleared(b) \o s)
    [] pad # <<>> /\ count < Len(s) -> Ok(TrimLast(Cleared(b) \o s, Len(s) - count))
    [] OTHER ->
         LET filled == Cleared(b) \o s \o Padding(count - Len(s), pad)
         IN  Ok(TrimLast(filled, Len(filled) - count))

-----------------------------------------------------------------------------
(* Searching.                                                              *)

\* p is found in s at position i.
FoundAt(s, p, i) == i + Len(p) - 1 <= Len(s) /\ SubSeq(s, i, i + Len(p) - 1) = p

contains(s, p) == \E i \in 1..(Len(s) + 1) : FoundAt(s, p, i)

starts_with(s, p) == FoundAt(s, p, 1)

ends_with(s, p) == Len(p) <= Len(s) /\ FoundAt(s, p, Len(s) - Len(p) + 1)

\* The position is counted in characters of the text before the match.
MutBytePosition(s, p) ==
  LET at == {i \in 1..(Len(s) + 1) : FoundAt(s, p, i)}
  IN  IF at = {} THEN 0 ELSE Bytes(Take(s, SmallestOf(at) - 1)) + 1
strpos(s, p) ==
  LET at == {i \in 1..(Len(s) + 1) : FoundAt(s, p, i)}
  IN  IF at = {} THEN 0 ELSE SmallestOf(at)

\* The parts of s between the matches of d, from the left.
RECURSIVE split(_, _)
split(s, d) ==
  LET at == {i \in 1..Len(s) : FoundAt(s, d, i)}
  IN  IF at = {} THEN <<s>>
      ELSE <<Take(s, SmallestOf(at) - 1)>>
             \o split(Drop(s, SmallestOf(at) + Len(d) - 1), d)

\* The same from the right; the last part comes first.
rsplit(s, d) ==
  LET parts == split(Reverse(s), Reverse(d)) IN [i \in DOMAIN parts |-> Reverse(parts[i])]

MutPartFromZero(s, d, n) ==
  LET parts == IF n > 0 THEN split(s, d) ELSE rsplit(s, d)
      k == IF n > 0 THEN n + 1 ELSE -n
  IN  CASE d = <<>> -> IF n = 1 THEN s ELSE <<>>
        [] d # <<>> /\ n = 0 -> <<>>
        [] OTHER -> IF k \in DOMAIN parts THEN parts[k] ELSE <<>>
split_part(s, d, n) ==
  LET parts == IF n > 0 THEN split(s, d) ELSE rsplit(s, d)
      k == IF n > 0 THEN n ELSE -n
  IN  CASE d = <<>> -> IF n = 1 THEN s ELSE <<>>
        [] d # <<>> /\ n = 0 -> <<>>
        [] OTHER -> IF k \in DOMAIN parts THEN parts[k] ELSE <<>>

RECURSIVE replace_all(_, _, _)
replace_all(s, from, to) ==
  LET i == strpos(s, from)
  IN  IF i = 0 THEN s
      ELSE Take(s, i - 1) \o to \o replace_all(Drop(s, i + Len(from) - 1), from, to)

replace(s, from, to) == IF from = <<>> THEN s ELSE replace_all(s, from, to)

\* The first place of a character in from_set decides; a character without a
\* counterpart in to_set is deleted.
translate(s, from_set, to_set) ==
  LET char_map ==
        FoldLeft(LAMBDA m, i :
                   IF from_set[i] \in {e[1] : e \in m} THEN m
                   ELSE m \cup {<<from_set[i],
                                  IF i <= Len(to_set) THEN <<to_set[i]>> ELSE <<>>>>},
                 {}, [i \in 1..Len(from_set) |-> i])
  IN  FlattenSeq([k \in DOMAIN s |->
        IF \E e \in char_map : e[1] = s[k]
        THEN (CHOOSE e \in char_map : e[1] = s[k])[2] ELSE <<s[k]>>])

RECURSIVE ltrim(_, _)
ltrim(s, set) ==
  IF s # <<>> /\ Contains(set, s[1]) THEN ltrim(Tail(s), set) ELSE s

RECURSIVE rtrim(_, _)
rtrim(s, set) ==
  IF s # <<>> /\ Contains(set, s[Len(s)]) THEN rtrim(Front(s), set) ELSE s

btrim(s, set) == rtrim(ltrim(s, set), set)


-----------------------------------------------------------------------------
(* LIKE.  The pattern becomes a regular expression of three kinds of atoms. *)

Lit(c) == <<"lit", c>>
One == <<"one", "">>
Many == <<"many", "">>

MutEscapeDropped(pattern) ==
  [i \in DOMAIN pattern |->
     CASE pattern[i] = "%" -> Many [] pattern[i] = "_" -> One [] OTHER -> Lit(pattern[i])]
RECURSIVE like_pattern_to_regex(_)
like_pattern_to_regex(pattern) ==
  CASE pattern = <<>> -> <<>>
    [] pattern # <<>> /\ pattern[1] = "\\" ->
         IF Len(pattern) > 1
         THEN <<Lit(pattern[2])>> \o like_pattern_to_regex(Drop(pattern, 2))
         ELSE <<Lit("\\")>>
    [] OTHER ->
         <<CASE pattern[1] = "%" -> Many [] pattern[1] = "_" -> One
             [] OTHER -> Lit(pattern[1])>> \o like_pattern_to_regex(Tail(pattern))

\* The regex library: the dot matches every character but a newline.
RECURSIVE is_match(_, _)
is_match(regex, s) ==
  CASE regex = <<>> -> s = <<>>
    [] regex # <<>> /\ regex[1] = Many ->
         \/ is_match(Tail(regex), s)
         \/ s # <<>> /\ s[1] # "nl" /\ is_match(regex, Tail(s))
    [] regex # <<>> /\ regex[1] = One ->
         s # <<>> /\ s[1] # "nl" /\ is_match(Tail(regex), Tail(s))
    [] OTHER -> s # <<>> /\ regex[1] = Lit(s[1]) /\ is_match(Tail(regex), Tail(s))

like(s, pattern) == is_match(like_pattern_to_regex(pattern), s)

-----------------------------------------------------------------------------
(* Regular expressions: characters, and "." for any character; a pattern   *)
(* with "(" does not compile.                                              *)

Compiles(p) == ~Contains(p, "(")

MatchAt(s, p, i) ==
  /\ i + Len(p) - 1 <= Len(s)
  /\ \A k \in DOMAIN p : p[k] = "." \/ p[k] = s[i + k - 1]

\* The leftmost match at or after a position, 0 when there is none.
Find(s, p, from) ==
  LET at == {i \in from..(Len(s) + 1) : MatchAt(s, p, i)}
  IN  IF at = {} THEN 0 ELSE SmallestOf(at)

RECURSIVE regexp_count(_, _, _)
regexp_count(s, p, from) ==
  LET i == Find(s, p, from)
  IN  IF i = 0 THEN 0 ELSE 1 + regexp_count(s, p, i + Len(p))

\* The position is counted in bytes.
regexp_instr(s, p) ==
  LET i == Find(s, p, 1) IN IF i = 0 THEN 0 ELSE Bytes(Take(s, i - 1)) + 1

regexp_like(s, p) == Find(s, p, 1) # 0

\* The replacement text: \0 is the match, another \digit a group there is
\* not, \\ a backslash, and \x is x.
RECURSIVE replace_append(_, _)
replace_append(rep, matched) ==
  CASE rep = <<>> -> <<>>
    [] rep # <<>> /\ rep[1] # "\\" -> <<rep[1]>> \o replace_append(Tail(rep), matched)
    [] rep = <<"\\">> -> rep
    [] OTHER -> (CASE rep[2] = "0" -> matched [] rep[2] = "1" -> <<>>
                   [] OTHER -> <<rep[2]>>)
                  \o replace_append(Drop(rep, 2), matched)

\* Only the first match is replaced.
regexp_replace(s, p, rep) ==
  LET i == Find(s, p, 1)
  IN  IF i = 0 THEN s
      ELSE Take(s, i - 1) \o replace_append(rep, SubSeq(s, i, i + Len(p) - 1))
             \o Drop(s, i + Len(p) - 1)

-----------------------------------------------------------------------------
(* A call.                                                                 *)

RegexFunctions == {"regexp_count", "regexp_instr", "regexp_like", "regexp_replace"}
SearchFunctions == {"contains", "starts_with", "ends_with", "like"}

\* A pattern that does not compile: regexp_like answers false, the others
\* return from the closure without writing the row.
BadPattern(fn) == IF fn = "regexp_like" THEN Ok(FALSE) ELSE Unset

\* The call of the bound function on one row whose arguments are not NULL.
Apply(fn, b, a) ==
  CASE fn = "ascii" -> Ok(ascii(a[1]))
    [] fn = "upper" -> Ok(upper(a[1]))
    [] fn = "lower" -> Ok(lower(a[1]))
    [] fn = "length" -> Ok(length(a[1]))
    [] fn = "byte_length" -> Ok(byte_length(a[1]))
    [] fn = "bit_length" -> Ok(bit_length(a[1]))
    [] fn = "concat" -> Ok(concat(b, a))
    [] fn = "reverse" -> Ok(reverse(b, a[1]))
    [] fn = "initcap" -> Ok(initcap(b, a[1]))
    [] fn = "left" -> Ok(left(a[1], a[2]))
    [] fn = "right" -> Ok(right(a[1], a[2]))
    [] fn = "substring" -> IF Len(a) = 2 THEN substring_from(a[1], a[2])
                           ELSE substring_from_count(a[1], a[2], a[3])
    [] fn = "repeat" -> Ok(repeat(b, a[1], a[2]))
    [] fn = "lpad" -> lpad(b, a[1], a[2], IF Len(a) = 2 THEN <<" ">> ELSE a[3])
    [] fn = "rpad" -> rpad(b, a[1], a[2], IF Len(a) = 2 THEN <<" ">> ELSE a[3])
    [] fn = "contains" -> Ok(contains(a[1], a[2]))
    [] fn = "starts_with" -> Ok(starts_with(a[1], a[2]))
    [] fn = "ends_with" -> Ok(ends_with(a[1], a[2]))
    [] fn = "strpos" -> Ok(strpos(a[1], a[2]))
    [] fn = "split_part" -> Ok(split_part(a[1], a[2], a[3]))
    [] fn = "replace" -> Ok(replace(a[1], a[2], a[3]))
    [] fn = "translate" -> Ok(translate(a[1], a[2], a[3]))
    [] fn = "ltrim" -> Ok(ltrim(a[1], IF Len(a) = 1 THEN <<" ">> ELSE a[2]))
    [] fn = "rtrim" -> Ok(rtrim(a[1], IF Len(a) = 1 THEN <<" ">> ELSE a[2]))
    [] fn = "btrim" -> Ok(btrim(a[1], IF Len(a) = 1 THEN <<" ">> ELSE a[2]))
    [] fn = "like" -> Ok(like(a[1], a[2]))
    [] fn \in RegexFunctions /\ ~Compiles(a[2]) -> BadPattern(fn)
    [] fn = "regexp_count" -> Ok(regexp_count(a[1], a[2], 1))
    [] fn = "regexp_instr" -> Ok(regexp_instr(a[1], a[2]))
    [] fn = "regexp_like" -> Ok(regexp_like(a[1], a[2]))
    [] fn = "regexp_replace" -> Ok(regexp_replace(a[1], a[2], a[3]))

\* The executors: a row with a NULL argument is NULL, and the function is
\* not called.
EvaluateRow(fn, b, row) ==
  IF \E k \in DOMAIN row : row[k] = <<>> THEN Null
  ELSE Apply(fn, b, [k \in DOMAIN row |-> row[k][1]])

\* A constant argument that is folded must be a string, and must compile.
FoldFails(c) ==
  \E k \in c.constant :
    \/ c.rows[1][k] = <<>>
    \/ c.fn \in RegexFunctions /\ k = 2 /\ ~Compiles(c.rows[1][k][1])

\* No signature fits: that of concat asks for one argument or more, so the
\* case without arguments in its execute is never reached.
NoFunctionMatches(c) == c.fn = "concat" /\ Len(c.rows[1]) < 1

Bind ==
  /\ stage = "bind"
  /\ stage' = IF NoFunctionMatches(call) \/ FoldFails(call) THEN "error" ELSE "execute"
  /\ UNCHANGED <<call, buf, out>>

\* The calls that make one buffer before the rows and build every result in
\* it. (LIKE builds its regular expression in one, emptied in the same way.)
BuildsInBuffer(c) ==
  \/ c.fn \in {"reverse", "initcap", "repeat", "lpad", "rpad"}
  \/ c.fn = "concat" /\ Len(c.rows[1]) > 1

ExecuteRow ==
  /\ stage = "execute"
  /\ LET result == EvaluateRow(call.fn, buf, call.rows[Len(out) + 1])
     IN  /\ out' = Append(out, result)
         /\ buf' = IF BuildsInBuffer(call) /\ result.tag = "ok" THEN result.val[1] ELSE buf
         /\ stage' = CASE result.tag \in {"panic", "loops"} -> "error"
                       [] result.tag \notin {"panic", "loops"} /\ Len(out) + 1 = Len(call.rows) -> "done"
                       [] OTHER -> "execute"
  /\ UNCHANGED call

Next == Bind \/ ExecuteRow

-----------------------------------------------------------------------------
(* The calls that are made: each function on a fixed row followed by any   *)
(* row of arguments from the pools.                                        *)

Texts == BoundedSeq(Letters, MaxText)
Short == BoundedSeq(Letters, 2)
LikePatterns == BoundedSeq({"a", "%", "_", "\\"}, 3)
LikeTexts == BoundedSeq({"a", "ee", "%", "\\"}, 2) \cup {<<"a", "nl">>, <<"a", "a", "a">>}
Regexes == (BoundedSeq({"a", "ee", "."}, 2) \ {<<>>}) \cup {<<"(">>}
Replacements == BoundedSeq({"b", "0", "1", "\\"}, 3)

\* Sets of argument rows without NULLs.
Rows(fn) ==
  CASE fn \in {"ascii", "upper", "lower", "length", "byte_length", "bit_length", "reverse"} ->
         {<<s>> : s \in Texts}
    [] fn = "initcap" -> {<<s>> : s \in BoundedSeq({"a", "A", "ee", " ", "-"}, 3)}
    [] fn = "concat" -> {<<>>} \cup {<<s>> : s \in Short} \cup (Short \X Short)
                          \cup {<<s, t, s>> : s \in Short, t \in Short}
    [] fn \in {"left", "right"} -> Texts \X Counts
    [] fn = "repeat" -> Short \X Counts
    [] fn = "substring" -> (Texts \X Counts) \cup (Texts \X Counts \X Counts)
    [] fn \in {"lpad", "rpad"} -> (Texts \X Counts) \cup (Texts \X Counts \X Short)
    [] fn \in {"contains", "starts_with", "ends_with", "strpos"} -> Texts \X Short
    [] fn = "split_part" -> Texts \X Short \X Counts
    [] fn = "replace" -> Texts \X Short \X {<<>>, <<"a">>, <<"ee", " ">>}
    [] fn = "translate" -> Texts \X BoundedSeq(Letters, 2) \X {<<>>, <<"b">>, <<"b", "A">>}
    [] fn \in {"ltrim", "rtrim", "btrim"} -> {<<s>> : s \in Texts} \cup (Texts \X Short)
    [] fn = "like" -> LikeTexts \X LikePatterns
    [] fn \in {"regexp_count", "regexp_instr", "regexp_like"} -> Texts \X Regexes
    [] fn = "regexp_replace" -> {<<"b", "a">>, <<"ee">>} \X {r \in Regexes : Len(r) = 1} \X Replacements

Functions ==
  {"ascii", "upper", "lower", "length", "byte_length", "bit_length", "concat", "reverse",
   "initcap", "left", "right", "substring", "repeat", "lpad", "rpad", "strpos", "split_part",
   "replace", "translate", "ltrim", "rtrim", "btrim"} \cup SearchFunctions \cup RegexFunctions

\* The arguments a function folds when they are constant.
Foldable(fn) ==
  CASE fn \in SearchFunctions -> {2} [] fn = "regexp_replace" -> {2, 3}
    [] fn \in RegexFunctions -> {2} [] OTHER -> {}

Some(row) == [k \in DOMAIN row |-> <<row[k]>>]

\* The row before: the same call on another string, so that the shared
\* buffer is not empty when the second row is evaluated.
RowBefore(fn, row, constant) ==
  [k \in DOMAIN row |->
     CASE k \in constant -> row[k]
       [] k = 1 -> <<<<"a", "b">>>>
       [] k # 1 /\ fn \in {"lpad", "rpad"} /\ k = 2 -> <<3>>
       [] OTHER -> row[k]]

\* A row, or the row with one argument NULL.
WithNulls(row) ==
  {Some(row)} \cup (IF Len(row) > 0 /\ row[1] = <<"a">>
                    THEN {[Some(row) EXCEPT ![k] = <<>>] : k \in DOMAIN row} ELSE {})

Init ==
  /\ \E fn \in Functions :
       \E values \in Rows(fn), constant \in SUBSET Foldable(fn) :
         \E row \in WithNulls(values) :
           call = [fn |-> fn, constant |-> constant,
                   rows |-> <<RowBefore(fn, row, constant), row>>]
  /\ buf = <<>>
  /\ out = <<>>
  /\ stage = "bind"

Spec == Init /\ [][Next]_vars

-----------------------------------------------------------------------------
(* What the functions promise.                                             *)

\* Where a function is meant to have an answer: positions count from one,
\* lengths are not negative; cutting with lpad and the position of a regular
\* expression count bytes, so that they are right for one-byte texts only;
\* the dot of LIKE does not match a newline.
Meant(fn, a) ==
  CASE fn = "substring" -> a[2] >= 1 /\ (Len(a) = 3 => a[3] >= 0)
    [] fn = "lpad" -> a[2] >= 0 /\ (Len(a[1]) > a[2] => Bytes(a[1]) = Len(a[1]))
    [] fn = "rpad" -> a[2] >= 0
    [] fn = "like" -> ~Contains(a[1], "nl")
    [] fn = "regexp_instr" -> Compiles(a[2]) /\ Bytes(a[1]) = Len(a[1])
    [] fn \in RegexFunctions -> Compiles(a[2])
    [] OTHER -> TRUE

SmallerOf(i, j) == IF i < j THEN i ELSE j
LargerOf(i, j) == IF i < j THEN j ELSE i
Joined(parts, d) ==
  FlattenSeq([i \in DOMAIN parts |-> IF i = 1 THEN parts[i] ELSE d \o parts[i]])
Number(n) == LargerOf(n, 0)

\* A character is escaped when an odd number of backslashes ends before it.
EscapedIn(p, i) ==
  LET run == {k \in 0..(i - 1) : \A j \in (i - k)..(i - 1) : p[j] = "\\"}
  IN  (Cardinality(run) - 1) % 2 = 1

\* The positions of the characters that are not an escape.
Significant(p) ==
  {i \in DOMAIN p : EscapedIn(p, i) \/ p[i] # "\\" \/ i = Len(p)}

\* LIKE as SQL defines it: s can be cut into one piece for each significant
\* character of the pattern.
LikeMeaning(s, p) ==
  LET sig == SetToSortSeq(Significant(p), <)
      n == Len(sig)
      Fits(piece, i) ==
        CASE p[i] = "%" /\ ~EscapedIn(p, i) -> TRUE
          [] p[i] = "_" /\ ~EscapedIn(p, i) -> Len(piece) = 1
          [] OTHER -> piece = <<p[i]>>
  IN  \E cut \in [0..n -> 0..Len(s)] :
        /\ cut[0] = 0 /\ cut[n] = Len(s)
        /\ \A k \in 1..n : /\ cut[k - 1] <= cut[k]
                           /\ Fits(SubSeq(s, cut[k - 1] + 1, cut[k]), sig[k])

\* The replacement text as its escapes define it.
ReplacementMeaning(rep, matched) ==
  LET sig == SetToSortSeq(Significant(rep), <)
  IN  FlattenSeq([k \in DOMAIN sig |->
        LET i == sig[k]
        IN  CASE EscapedIn(rep, i) /\ rep[i] = "0" -> matched
              [] EscapedIn(rep, i) /\ rep[i] = "1" -> <<>>
              [] OTHER -> <<rep[i]>>])

\* v is what the function should give for the arguments a.
Right(fn, a, v) ==
  CASE fn = "ascii" -> (v = 0) <=> (a[1] = <<>>)
    [] fn = "upper" -> lower(v) = lower(a[1]) /\ v = upper(v)
    [] fn = "lower" -> upper(v) = upper(a[1]) /\ v = lower(v)
    [] fn = "length" -> v = Cardinality(DOMAIN a[1])
    [] fn = "byte_length" -> v = Len(a[1]) + Cardinality({i \in DOMAIN a[1] : Width(a[1][i]) = 2})
    [] fn = "bit_length" -> v = 8 * byte_length(a[1])
    [] fn = "concat" -> /\ Len(v) = FoldLeft(LAMBDA n, s : n + Len(s), 0, a)
                        /\ IsPrefix(a[1], v) /\ IsSuffix(a[Len(a)], v)
    [] fn = "reverse" -> Len(v) = Len(a[1]) /\ \A i \in DOMAIN v : v[i] = a[1][Len(v) + 1 - i]
    [] fn = "initcap" ->
         /\ lower(v) = lower(a[1])
         /\ \A i \in DOMAIN v : IsAlphabetic(v[i]) =>
              (v[i] = Upper(v[i])) = (i = 1 \/ ~IsAlphabetic(v[i - 1]))
    [] fn = "left" -> /\ IsPrefix(v, a[1])
                      /\ Len(v) = IF a[2] >= 0 THEN SmallerOf(a[2], Len(a[1]))
                                  ELSE Number(Len(a[1]) + a[2])
    [] fn = "right" -> /\ IsSuffix(v, a[1])
                       /\ Len(v) = IF a[2] >= 0 THEN SmallerOf(a[2], Len(a[1]))
                                   ELSE Number(Len(a[1]) + a[2])
    [] fn = "substring" ->
         LET wanted == {i \in DOMAIN a[1] : i >= a[2] /\ (Len(a) = 3 => i < a[2] + a[3])}
         IN  Len(v) = Cardinality(wanted) /\ \A k \in DOMAIN v : v[k] = a[1][a[2] + k - 1]
    [] fn = "repeat" -> /\ Len(v) = Len(a[1]) * Number(a[2])
                        /\ \A i \in DOMAIN v : v[i] = a[1][((i - 1) % Len(a[1])) + 1]
    [] fn \in {"lpad", "rpad"} ->
         LET pad == IF Len(a) = 2 THEN <<" ">> ELSE a[3]
             lead == IF fn = "lpad" THEN 0 ELSE Len(a[1])
         IN  IF pad = <<>> THEN v = a[1]
             ELSE /\ Len(v) = a[2]
                  /\ Len(a[1]) > a[2] => IsPrefix(v, a[1])
                  /\ Len(a[1]) <= a[2] =>
                       /\ IF fn = "lpad" THEN IsSuffix(a[1], v) ELSE IsPrefix(a[1], v)
                       /\ \A i \in 1..(a[2] - Len(a[1])) :
                            v[lead + i] = pad[((i - 1) % Len(pad)) + 1]
    [] fn = "contains" -> v = (strpos(a[1], a[2]) > 0)
    [] fn = "starts_with" -> v = (left(a[1], Len(a[2])) = a[2])
    [] fn = "ends_with" -> v = (right(a[1], Len(a[2])) = a[2])
    [] fn = "strpos" ->
         IF v = 0 THEN \A i \in 0..Len(a[1]) : ~IsPrefix(a[2], Drop(a[1], i))
         ELSE /\ IsPrefix(a[2], Drop(a[1], v - 1))
              /\ \A i \in 0..(v - 2) : ~IsPrefix(a[2], Drop(a[1], i))
    [] fn = "split_part" ->
         LET n == Len(split(a[1], a[2]))
         IN  a[2] # <<>> =>
               /\ strpos(v, a[2]) = 0
               /\ Joined([k \in 1..n |-> split_part(a[1], a[2], k)], a[2]) = a[1]
               /\ Joined([k \in 1..n |-> split_part(a[1], a[2], k - n - 1)], a[2]) = a[1]
               /\ a[2] \in {<<c>> : c \in Letters} /\ a[3] \in -n..-1 =>
                    v = split_part(a[1], a[2], n + 1 + a[3])
    [] fn = "replace" -> v = IF a[2] = <<>> THEN a[1] ELSE Joined(split(a[1], a[2]), a[3])
    [] fn = "translate" ->
         v = FlattenSeq([k \in DOMAIN a[1] |->
               LET i == strpos(a[2], <<a[1][k]>>)
               IN  IF i = 0 THEN <<a[1][k]>> ELSE SubSeq(a[3], i, SmallerOf(i, Len(a[3])))])
    [] fn \in {"ltrim", "rtrim", "btrim"} ->
         LET set == IF Len(a) = 1 THEN {" "} ELSE ToSet(a[2])
         IN  \E i, j \in 0..Len(a[1]) :
               /\ i + j <= Len(a[1])
               /\ v = SubSeq(a[1], i + 1, Len(a[1]) - j)
               /\ fn = "ltrim" => j = 0
               /\ fn = "rtrim" => i = 0
               /\ ToSet(Take(a[1], i)) \cup ToSet(Drop(a[1], Len(a[1]) - j)) \subseteq set
               /\ v # <<>> => /\ fn # "rtrim" => v[1] \notin set
                              /\ fn # "ltrim" => v[Len(v)] \notin set
    [] fn = "like" -> v = LikeMeaning(a[1], a[2])
    [] fn = "regexp_count" ->
         LET at == {i \in DOMAIN a[1] : MatchAt(a[1], a[2], i)}
             apart == {S \in SUBSET at : \A i, j \in S : i < j => j - i >= Len(a[2])}
         IN  (\E S \in apart : Cardinality(S) = v) /\ \A S \in apart : Cardinality(S) <= v
    [] fn = "regexp_instr" -> IF v = 0 THEN ~regexp_like(a[1], a[2])
                              ELSE MatchAt(a[1], a[2], v) /\ ~\E i \in 1..(v - 1) : MatchAt(a[1], a[2], i)
    [] fn = "regexp_like" -> v = (regexp_count(a[1], a[2], 1) > 0)
    [] fn = "regexp_replace" ->
         LET i == Find(a[1], a[2], 1)
             j == i + Len(a[2]) - 1
         IN  v = IF i = 0 THEN a[1]
                 ELSE Take(a[1], i - 1) \o ReplacementMeaning(a[3], SubSeq(a[1], i, j)) \o Drop(a[1], j)

TypeOK ==
  /\ call.fn \in Functions
  /\ stage \in {"bind", "execute", "done", "error"}
  /\ Len(out) <= Len(call.rows)
  /\ \A i \in DOMAIN out : out[i].tag \in {"ok", "null", "unset", "panic", "loops"}

\* A row is NULL exactly when one of its arguments is (for concat too, as
\* string_concat.slt expects; the comment on it in concat.rs and the one in
\* that test say it should leave NULLs out one day), and is otherwise what
\* the function means for the row's arguments: it does not depend on the rows
\* before it in the batch or on which arguments were constant when the call
\* was bound.
RowsAsMeant ==
  \A i \in DOMAIN out :
    LET row == call.rows[i]
        a == [k \in DOMAIN row |-> row[k][1]]
    IN  IF \E k \in DOMAIN row : row[k] = <<>> THEN out[i] = Null
        ELSE Meant(call.fn, a) =>
               out[i].tag = "ok" /\ Right(call.fn, a, out[i].val[1])

=============================================================================
