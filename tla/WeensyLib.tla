------------------------------ MODULE WeensyLib ------------------------------
(***************************************************************************)
(* The library that the kernel and the programs of weensyos share, lib.cc  *)
(* and lib.hh: memory and string functions, numbers read and printed, and  *)
(* the arithmetic of the kernel.  Each function is an operator that takes  *)
(* the steps of its loop; the state is one call and its result, which is   *)
(* compared with what the function is for.                                 *)
(*                                                                         *)
(* A character is its code.  A string is the sequence of its characters    *)
(* without the NUL; a buffer is the sequence of all its bytes.             *)
(***************************************************************************)
EXTENDS Integers, Sequences, FiniteSets, SequencesExt

CONSTANTS W,          \* bits of an unsigned long; 64
          MaxNumber,  \* bound: the numbers that are read, above 2^W
          RAND_MAX    \* 0x7FFFFFFF

ASSUME LibAssumption == W \in Nat \ {0} /\ MaxNumber > 2 ^ W /\ RAND_MAX \in Nat

VARIABLES call, result

libVars == <<call, result>>

NUL == 0
Past == -1   \* what lies behind the NUL of a string: nobody may read it
At(s, i) == IF i <= Len(s) THEN s[i] ELSE IF i = Len(s) + 1 THEN NUL ELSE Past
Upto(n) == [i \in 1 .. n |-> i]

-----------------------------------------------------------------------------
(* Memory and strings *)

\* The bytes of mem from src to dst, in the order of the offsets.
CopyBytes(mem, dst, src, order) == FoldLeft(LAMBDA m, k : [m EXCEPT ![dst + k] = m[src + k]], mem, order)
Forward(n) == [k \in 1 .. n |-> k - 1]

memcpy(mem, dst, src, n) == CopyBytes(mem, dst, src, Forward(n))
memmove(mem, dst, src, n) ==
  CopyBytes(mem, dst, src, IF src < dst /\ src + n > dst THEN Reverse(Forward(n)) ELSE Forward(n))

memset(mem, dst, c, n) == FoldLeft(LAMBDA m, k : [m EXCEPT ![dst + k] = c], mem, Forward(n))

\* The first offset below n at which p holds, or n.
FirstOf(n, p(_)) ==
  LET turn[k \in 0 .. n] == IF k = n THEN n ELSE IF p(k) THEN k ELSE turn[k + 1] IN turn[0]

memchr(s, c, n) == LET k == FirstOf(n, LAMBDA i : s[i + 1] = c) IN IF k = n THEN -1 ELSE k
strnlen(s, maxlen) == FirstOf(maxlen, LAMBDA i : At(s, i + 1) = NUL)
strlen(s) == strnlen(s, Len(s) + 1)

\* The NUL is a character of the string too.
strchr(s, c) ==
  LET k == FirstOf(Len(s) + 1, LAMBDA i : At(s, i + 1) \in {NUL, c}) IN
  IF At(s, k + 1) = c THEN k ELSE -1

strcpy(dst, s) == FoldLeft(LAMBDA m, k : [m EXCEPT ![k] = At(s, k)], dst, Upto(strlen(s) + 1))

strncpy(dst, s, maxlen) ==
  LET copied == FoldLeft(LAMBDA m, k : IF k <= Len(s) THEN [m EXCEPT ![k] = s[k]] ELSE m, dst, Upto(maxlen))
  IN  FoldLeft(LAMBDA m, k : IF k > Len(s) THEN [m EXCEPT ![k] = NUL] ELSE m, copied, Upto(maxlen))

\* Copies what fits; the length of the whole string is returned.
strlcpy(dst, s, maxlen) ==
  LET nn == IF Len(s) > maxlen - 1 THEN maxlen - 1 ELSE Len(s)
      copied == memcpy(dst \o s, 1, Len(dst) + 1, nn)
  IN  [n |-> Len(s),
       buf |-> IF maxlen = 0 THEN dst ELSE SubSeq([copied EXCEPT ![nn + 1] = NUL], 1, Len(dst))]

\* The differences of unsigned numbers: a smaller character wraps to a large one.
isdigit(c) == c - 48 \in 0 .. 9
islower(c) == c - 97 \in 0 .. 25
isupper(c) == c - 65 \in 0 .. 25
isalpha(c) == (IF (c \div 32) % 2 = 1 THEN c ELSE c + 32) - 97 \in 0 .. 25
isalnum(c) == isalpha(c) \/ isdigit(c)
tolower(c) == IF isupper(c) THEN c + 32 ELSE c
toupper(c) == IF islower(c) THEN c - 32 ELSE c
Sign(a, b) == IF a > b THEN 1 ELSE IF a < b THEN -1 ELSE 0

memcmp(a, b, n) ==
  LET k == FirstOf(n, LAMBDA i : a[i + 1] # b[i + 1]) IN IF k = n THEN 0 ELSE Sign(a[k + 1], b[k + 1])

\* What assert_memeq_fail shows of two arrays that differ: ten bytes before the first
\* difference and ten from it on.
Around == 10
assert_memeq_fail(x, y, sz) ==
  LET pos == FirstOf(sz, LAMBDA i : x[i + 1] # y[i + 1]) IN
  [pos |-> pos, spos |-> IF pos <= Around THEN 0 ELSE pos - Around,
   epos |-> IF pos + Around < sz THEN pos + Around ELSE sz]

\* strcmp, strncmp and their variants without case: fold is applied to every
\* character, and from the n-th on both strings read as ended.
Compare(a, b, n, fold(_)) ==
  LET ac(i) == IF i <= n THEN fold(At(a, i)) ELSE NUL
      bc(i) == IF i <= n THEN fold(At(b, i)) ELSE NUL
      turn[i \in 1 .. n + 1] ==
        IF ac(i) = NUL \/ bc(i) = NUL \/ ac(i) # bc(i) THEN Sign(ac(i), bc(i)) ELSE turn[i + 1]
  IN  turn[1]

strncmp(a, b, n) == Compare(a, b, n, LAMBDA c : c)
strncasecmp(a, b, n) == Compare(a, b, n, tolower)
Both(a, b) == Len(a) + Len(b) + 1
strcmp(a, b) == strncmp(a, b, Both(a, b))
strcasecmp(a, b) == strncasecmp(a, b, Both(a, b))

\* One turn of strstr's loop; seen: everything it has read.
StrstrTurn(hs, ns, p) ==
  LET c == At(hs, p.i + p.j + 1) IN
  IF c = At(ns, p.j + 1) THEN [i |-> p.i, j |-> p.j + 1, seen |-> p.seen \cup {c}]
  ELSE [i |-> p.i + 1, j |-> 0, seen |-> p.seen \cup {c}]

\* The offset of the first ns in hs, or -1.
strstr(hs, ns) ==
  LET bound == (Len(hs) + 1) * (Len(ns) + 1)
      turn[t \in 0 .. bound] ==
        IF t = 0 THEN [i |-> 0, j |-> 0, seen |-> {}]
        ELSE LET p == turn[t - 1] IN
             IF At(hs, p.i + 1) # NUL /\ At(ns, p.j + 1) # NUL THEN StrstrTurn(hs, ns, p) ELSE p
      end == turn[bound]
  IN  [at |-> IF At(ns, end.j + 1) = NUL THEN end.i ELSE -1, seen |-> end.seen]

-----------------------------------------------------------------------------
(* Numbers read *)

UlongMax == 2 ^ W - 1
Word(x) == x % 2 ^ W

\* A digit of the base, or -1.  In a base above ten the characters behind '9' count
\* too, so ':' is ten as 'a' is.
Digit(c, base) ==
  CASE c \in 48 .. 47 + base -> c - 48
    [] c \in 97 .. 96 + base - 10 -> c - 87
    [] c \in 65 .. 64 + base - 10 -> c - 55
    [] OTHER -> -1

\* Mutant of Accumulate: the digit is not counted in the test.
AccumulateLate(a, d, base) ==
  IF a.x > UlongMax \div base THEN [a EXCEPT !.over = TRUE] ELSE [a EXCEPT !.x = Word(@ * base + d)]

Accumulate(a, d, base) ==
  IF a.x > (UlongMax - d) \div base THEN [a EXCEPT !.over = TRUE] ELSE [a EXCEPT !.x = @ * base + d]

\* from_chars for an unsigned long: how many digits, and the number.
from_chars(t, base) ==
  LET n == CHOOSE k \in 0 .. Len(t) : Digit(At(t, k + 1), base) = -1
                                      /\ \A j \in 1 .. k : Digit(t[j], base) # -1
      a == FoldLeft(LAMBDA acc, c : Accumulate(acc, Digit(c, base), base), [x |-> 0, over |-> FALSE], SubSeq(t, 1, n))
  IN  [n |-> n, ec |-> IF n = 0 THEN "E_INVAL" ELSE IF a.over THEN "E_RANGE" ELSE "ok",
       x |-> IF n = 0 \/ a.over THEN 0 ELSE a.x]

\* from_chars for a long: only a '-' may stand before the digits.
from_chars_long(t, base) ==
  LET negative == At(t, 1) = 45
      r == from_chars(IF negative THEN Tail(t) ELSE t, base)
  IN  IF r.ec = "ok" /\ r.x <= 2 ^ (W - 1) - (IF negative THEN 0 ELSE 1)
      THEN [ec |-> "ok", x |-> IF negative THEN -r.x ELSE r.x]
      ELSE [ec |-> IF r.ec = "ok" THEN "E_RANGE" ELSE r.ec, x |-> 0]

\* The base that a prefix tells, and the characters of the prefix.
strtol_fix_base(t, base) ==
  LET told == CASE At(t, 2) \in {88, 120} -> 16 [] At(t, 2) \in {79, 111} -> 8
                [] At(t, 2) \in {66, 98} -> 2   [] OTHER -> 0
      zero == At(t, 1) = 48
  IN  CASE base = 0 /\ zero /\ told # 0           -> [base |-> told, skip |-> 2]
        [] base = 0 /\ zero /\ told = 0           -> [base |-> 8, skip |-> 0]
        [] base = 0 /\ ~zero                      -> [base |-> 10, skip |-> 0]
        [] base = 16 /\ zero /\ told = 16         -> [base |-> 16, skip |-> 2]
        [] OTHER                                  -> [base |-> base, skip |-> 0]

isspace(c) == c \in 9 .. 13 \/ c = 32

\* What strtoul and strtol have in common: the sign, where the digits end, the number.
Scan(s, base) ==
  LET sp == CHOOSE k \in 0 .. Len(s) : ~isspace(At(s, k + 1)) /\ \A j \in 1 .. k : isspace(s[j])
      sign == IF At(s, sp + 1) \in {43, 45} THEN 1 ELSE 0
      b == strtol_fix_base(SubSeq(s, sp + sign + 1, Len(s)), base)
      from == sp + sign + b.skip
      r == from_chars(SubSeq(s, from + 1, Len(s)), b.base)
  IN  [negative |-> At(s, sp + 1) = 45, r |-> r, end |-> IF r.ec = "E_INVAL" THEN 0 ELSE from + r.n]

strtoul(s, base) ==
  LET c == Scan(s, base)
      x == IF c.r.ec = "E_RANGE" THEN UlongMax ELSE c.r.x
  IN  [x |-> IF c.negative THEN Word(-x) ELSE x, end |-> c.end]

strtol(s, base) ==
  LET c == Scan(s, base)
      bound == 2 ^ (W - 1) - IF c.negative THEN 0 ELSE 1
      x == IF c.r.ec = "E_RANGE" \/ c.r.x > bound THEN bound ELSE c.r.x
  IN  [x |-> IF c.negative THEN -x ELSE x, end |-> c.end]

-----------------------------------------------------------------------------
(* Numbers printed *)

NUMBUFSIZ == 32

\* One turn of print_number's loop, from the last digit to the first: p.left counts
\* down to the next separator, and is -1 when there are none.
PrintTurn(p, base, group) ==
  IF p.left = 0 THEN [p EXCEPT !.text = <<IF base = 10 THEN 44 ELSE 39>> \o @, !.left = group]
  ELSE LET d == p.val % base IN
       [text |-> <<IF d < 10 THEN 48 + d ELSE p.ten + d - 10>> \o p.text,
        val |-> p.val \div base, left |-> p.left - 1, ten |-> p.ten]

print_number(val, base, upper, thousands) ==
  LET group == IF base = 10 THEN 3 ELSE 4
      turn[t \in 1 .. NUMBUFSIZ - 1] ==
        IF t = 1 THEN PrintTurn([text |-> <<>>, val |-> val, left |-> IF thousands THEN group ELSE -1,
                                 ten |-> IF upper THEN 65 ELSE 97], base, group)
        ELSE LET p == turn[t - 1] IN IF p.val = 0 THEN p ELSE PrintTurn(p, base, group)
  IN  turn[NUMBUFSIZ - 1].text

Times(c, n) == [i \in 1 .. (IF n > 0 THEN n ELSE 0) |-> c]

\* One conversion of vprintf.  f: its flags, width, precision (-1 when absent) and
\* conversion character; arg: a number, or for "s" a string.
Convert(f, arg) ==
  LET numeric == f.conv # "s"
      base == IF f.conv \in {"x", "X", "p"} THEN 16 ELSE 10
      num == IF f.conv = "d" /\ arg < 0 THEN -arg ELSE arg
      data == IF numeric THEN print_number(num, base, f.conv = "X", "'" \in f.flags)
              ELSE IF f.precision >= 0 /\ f.precision < Len(arg) THEN SubSeq(arg, 1, f.precision) ELSE arg
      prefix == CASE f.conv = "d" /\ arg < 0                       -> <<45>>
                  [] f.conv = "d" /\ arg >= 0 /\ "+" \in f.flags   -> <<43>>
                  [] f.conv = "d" /\ arg >= 0 /\ "+" \notin f.flags /\ " " \in f.flags -> <<32>>
                  [] f.conv = "p" \/ (f.conv = "x" /\ "#" \in f.flags /\ num # 0) -> <<48, 120>>
                  [] f.conv = "X" /\ "#" \in f.flags /\ num # 0    -> <<48, 88>>
                  [] OTHER                                         -> <<>>
      body == Len(prefix) + Len(data)
      zeros == IF numeric /\ f.precision >= 0 THEN f.precision - Len(data)
               ELSE IF numeric /\ "0" \in f.flags /\ "-" \notin f.flags THEN f.width - body
               ELSE 0
      text == prefix \o Times(48, zeros) \o data
      pad == Times(32, f.width - Len(text))
  IN  IF "-" \in f.flags THEN text \o pad ELSE pad \o text

\* string_printer::putc for every character, then the NUL, which may take the place
\* of the last character.
vsnprintf(buf, size, text) ==
  LET put(m, k) == IF k <= size THEN [m EXCEPT ![k] = text[k]] ELSE m
      filled == FoldLeft(put, buf, Upto(Len(text)))
      end == IF Len(text) < size THEN Len(text) + 1 ELSE size
  IN  [n |-> Len(text), buf |-> IF size = 0 THEN filled ELSE [filled EXCEPT ![end] = NUL]]

-----------------------------------------------------------------------------
(* Arithmetic *)

\* __builtin_clz and __builtin_ffs, by the bits.
Bit(x, i) == (x \div 2 ^ i) % 2
msb(x) == IF x = 0 THEN 0 ELSE 1 + CHOOSE i \in 0 .. W - 1 : Bit(x, i) = 1 /\ \A j \in i + 1 .. W - 1 : Bit(x, j) = 0
lsb(x) == IF x = 0 THEN 0 ELSE 1 + CHOOSE i \in 0 .. W - 1 : Bit(x, i) = 1 /\ \A j \in 0 .. i - 1 : Bit(x, j) = 0

round_down(x, m) == x - (x % m)
round_up(x, m) == round_down(Word(x + m - 1), m)
round_down_pow2(x) == IF x = 0 THEN 0 ELSE 2 ^ (msb(x) - 1)
round_up_pow2(x) == IF x = 0 THEN 0 ELSE 2 ^ msb(x - 1)

\* rand(min, max) for a value r of rand(): the number, or min - 1 for another turn.
rand(r, min, max) ==
  LET div == (RAND_MAX + 1) \div (max - min + 1)
      top == div * (max - min + 1)
  IN  IF r < top THEN min + r \div div ELSE min - 1

-----------------------------------------------------------------------------
(* One call *)

Strings(A, n) == UNION {[1 .. k -> A] : k \in 0 .. n}
Fresh(n) == [i \in 1 .. n |-> 200 + i]   \* a buffer of bytes that are all different

\* The numeral of n, and the text around it that strtol takes.
Numeral(n, base) ==
  LET k == CHOOSE j \in 1 .. 2 * W : n < base ^ j /\ (j = 1 \/ n >= base ^ (j - 1))
  IN  [i \in 1 .. k |-> LET d == (n \div base ^ (k - i)) % base IN IF d < 10 THEN 48 + d ELSE 87 + d]
NotNumbers == {<<>>, <<32>>, <<45>>, <<43, 45, 49>>, <<120, 49>>, <<48, 120>>, <<48, 120, 103>>}

Conversions ==
  {[conv |-> c, flags |-> fs, width |-> w, precision |-> p] :
     c \in {"d", "u", "x", "X", "p"}, fs \in SUBSET {"#", "0", "-", "+", "'"}, w \in {-1, 5}, p \in {-1, 3}}

Characters == 0 .. 127
Comparisons == {"strcmp", "strncmp", "strcasecmp", "strncasecmp"}

Calls ==
  \/ \E dst, src \in 1 .. 5, n \in 0 .. 4 :
       dst + n <= 6 /\ src + n <= 6 /\ call = [f |-> "memmove", dst |-> dst, src |-> src, n |-> n]
  \/ \E dst, n \in 0 .. 4 : dst + n <= 5 /\ call = [f |-> "memset", dst |-> dst + 1, n |-> n]
  \/ \E a, b \in [1 .. 3 -> {7, 8, 9}], n \in 0 .. 3 : call = [f |-> "memcmp", a |-> a, b |-> b, n |-> n]
  \/ \E d \in 0 .. 29, sz \in {1, 10, 11, 21, 30} : d < sz /\ call = [f |-> "memeq", pos |-> d, sz |-> sz]
  \/ \E c \in Characters : call = [f |-> "ctype", c |-> c]
  \/ \E s \in Strings({97, 98}, 3), n \in 0 .. 4, f \in {"strncpy", "strlcpy", "strcpy", "search"} : call = [f |-> f, s |-> s, n |-> n]
  \/ \E a, b \in Strings({65, 97, 98}, 3), n \in {0, 2, 9}, f \in Comparisons :
       (n = 9 \/ f \in {"strncmp", "strncasecmp"}) /\ call = [f |-> f, a |-> a, b |-> b, n |-> n]
  \/ \E hs \in Strings({97, 98}, 5), ns \in Strings({97, 98}, 3) : call = [f |-> "strstr", a |-> hs, b |-> ns]
  \/ \E n \in 0 .. MaxNumber, b \in {<<0, 8>>, <<0, 10>>, <<0, 16>>, <<10, 10>>, <<16, 16>>},
        sign \in {<<>>, <<43>>, <<45>>, <<32, 45>>}, tail \in {<<>>, <<103>>, <<45>>} :
       call = [f |-> "strtol", n |-> n, base |-> b[1], sign |-> sign, tail |-> tail,
               digits |-> (CASE b = <<0, 8>> -> <<48>> [] b = <<0, 16>> -> <<48, 120>> [] OTHER -> <<>>)
                          \o Numeral(n, b[2])]
  \/ \E s \in NotNumbers, base \in {0, 16} : call = [f |-> "notNumber", s |-> s, base |-> base]
  \/ \E f \in Conversions, n \in {0, 7, 12, UlongMax, 2 ^ (W - 1)} :
       call = [f |-> "vprintf", how |-> f, n |-> IF f.conv = "d" /\ n > 2 ^ (W - 1) - 1 THEN n - 2 ^ W ELSE n]
  \/ \E n \in {1000, 65536, 1234567} : call = [f |-> "thousands", n |-> n]
  \/ \E n, size \in 0 .. 4 : call = [f |-> "vsnprintf", n |-> n, size |-> size]
  \/ \E x \in 0 .. UlongMax : call = [f |-> "round", x |-> x]
  \/ \E k \in 0 .. RAND_MAX : call = [f |-> "rand", max |-> k]

LibInit == Calls /\ result = <<>>

Text(c) == c.sign \o c.digits \o c.tail

Answer(c) ==
  CASE c.f = "memmove"     -> memmove(Fresh(5), c.dst, c.src, c.n)
    [] c.f = "memset"      -> memset(Fresh(5), c.dst, 0, c.n)
    [] c.f = "memcmp"      -> memcmp(c.a, c.b, c.n)
    [] c.f = "memeq"       -> assert_memeq_fail([i \in 1 .. c.sz |-> 0], [i \in 1 .. c.sz |-> IF i > c.pos THEN 1 ELSE 0], c.sz)
    [] c.f = "ctype"       -> [alpha |-> isalpha(c.c), alnum |-> isalnum(c.c), up |-> toupper(c.c), low |-> tolower(c.c)]
    [] c.f = "strcpy"      -> strcpy(Fresh(5), c.s)
    [] c.f = "search"      -> [len |-> strnlen(c.s, c.n), chr |-> [x \in {97, 98, NUL} |-> strchr(c.s, x)],
                               mem |-> [x \in {97, 98} |-> memchr(c.s, x, strlen(c.s))]]
    [] c.f = "strncpy"     -> strncpy(Fresh(5), c.s, c.n)
    [] c.f = "strlcpy"     -> strlcpy(Fresh(5), c.s, c.n)
    [] c.f = "strncmp"     -> strncmp(c.a, c.b, c.n)
    [] c.f = "strncasecmp" -> strncasecmp(c.a, c.b, c.n)
    [] c.f = "strcmp"      -> strcmp(c.a, c.b)
    [] c.f = "strcasecmp"  -> strcasecmp(c.a, c.b)
    [] c.f = "strstr"      -> strstr(c.a, c.b)
    [] c.f = "strtol"      -> [long |-> strtol(Text(c), c.base), ulong |-> strtoul(Text(c), c.base),
                               chars |-> from_chars_long(SelectSeq(c.sign, LAMBDA x : x = 45) \o Numeral(c.n, 10), 10)]
    [] c.f = "notNumber"   -> <<strtol(c.s, c.base), strtoul(c.s, c.base)>>
    [] c.f = "vprintf"     -> Convert(c.how, c.n)
    [] c.f = "thousands"   -> print_number(c.n, 10, FALSE, TRUE)
    [] c.f = "vsnprintf"   -> vsnprintf(Fresh(5), c.size, [i \in 1 .. c.n |-> 96 + i])
    [] c.f = "round"       -> [up |-> round_up_pow2(c.x), down |-> round_down_pow2(c.x), lsb |-> lsb(c.x),
                               page |-> <<round_down(c.x, 4), round_up(c.x, 4)>>]
    [] c.f = "rand"        -> [r \in 0 .. RAND_MAX |-> rand(r, 3, 3 + c.max)]

Return == result = <<>> /\ result' = <<Answer(call)>> /\ UNCHANGED call

LibNext == Return

-----------------------------------------------------------------------------
(* What the functions are for *)

Powers == {2 ^ i : i \in 0 .. W}
Capital(c) == IF c.f \in {"strncasecmp", "strcasecmp"} THEN [x \in {65, 97, 98} |-> IF x = 65 THEN 97 ELSE x] ELSE [x \in {65, 97, 98} |-> x]

\* A string as a number in base 128, of which only the first n characters count.
Weight(s, n, low) ==
  FoldLeft(LAMBDA acc, i : acc * 128 + (IF i <= Len(s) /\ i <= n THEN low[s[i]] ELSE 0), 0, Upto(3))

Clip(x, lo, hi) == IF x < lo THEN lo ELSE IF x > hi THEN hi ELSE x

Right(c, r) ==
  CASE c.f = "memmove" ->
         r = [i \in 1 .. 5 |-> IF i \in c.dst .. c.dst + c.n - 1 THEN 200 + c.src + i - c.dst ELSE 200 + i]
    [] c.f = "memset" -> r = [i \in 1 .. 5 |-> IF i \in c.dst .. c.dst + c.n - 1 THEN 0 ELSE 200 + i]
    [] c.f = "memcmp" ->
         LET number(a) == FoldLeft(LAMBDA acc, i : acc * 128 + (IF i <= c.n THEN a[i] ELSE 0), 0, Upto(3))
         IN  r = Sign(number(c.a), number(c.b))
    [] c.f = "memeq" ->
         /\ r.pos = c.pos /\ 0 <= r.spos /\ r.spos <= r.pos /\ r.pos < r.epos /\ r.epos <= c.sz
         /\ r.epos - r.spos <= 2 * Around
    [] c.f = "ctype" ->
         /\ r.alpha = (c.c \in 65 .. 90 \/ c.c \in 97 .. 122)
         /\ r.alnum = (r.alpha \/ c.c \in 48 .. 57)
         /\ r.alpha = (r.up # r.low) /\ c.c \in {r.up, r.low} /\ (r.alpha => r.low = r.up + 32)
    [] c.f = "strcpy" -> r = [i \in 1 .. 5 |-> IF i <= Len(c.s) THEN c.s[i] ELSE IF i = Len(c.s) + 1 THEN NUL ELSE 200 + i]
    [] c.f = "search" ->
         LET first(x) == {i \in 1 .. Len(c.s) : c.s[i] = x /\ \A j \in 1 .. i - 1 : c.s[j] # x} IN
         /\ r.len = IF Len(c.s) < c.n THEN Len(c.s) ELSE c.n
         /\ r.chr[NUL] = Len(c.s)
         /\ \A x \in {97, 98} : r.chr[x] = r.mem[x] /\ IF first(x) = {} THEN r.chr[x] = -1 ELSE r.chr[x] + 1 \in first(x)
    [] c.f = "strncpy" ->
         r = [i \in 1 .. 5 |-> IF i > c.n THEN 200 + i ELSE IF i <= Len(c.s) THEN c.s[i] ELSE NUL]
    [] c.f = "strlcpy" ->
         /\ r.n = Len(c.s)
         /\ \A i \in 1 .. 5 : r.buf[i] = IF i > c.n \/ i > Len(c.s) + 1 THEN 200 + i
                                         ELSE IF i = c.n \/ i = Len(c.s) + 1 THEN NUL ELSE c.s[i]
    [] c.f \in Comparisons ->
         r = Sign(Weight(c.a, c.n, Capital(c)), Weight(c.b, c.n, Capital(c)))
    [] c.f = "strstr" ->
         LET found == {i \in 0 .. Len(c.a) - Len(c.b) : SubSeq(c.a, i + 1, i + Len(c.b)) = c.b} IN
         Past \notin r.seen /\ IF found = {} THEN r.at = -1 ELSE r.at \in found /\ \A i \in found : r.at <= i
    [] c.f = "strtol" ->
         LET n == IF 45 \in ToSet(c.sign) THEN -c.n ELSE c.n
             clipped == Clip(n, -(2 ^ (W - 1)), 2 ^ (W - 1) - 1)
         IN  /\ r.long = [x |-> clipped, end |-> Len(c.sign) + Len(c.digits)]
             /\ r.ulong = [x |-> Word(Clip(n, -UlongMax, UlongMax)), end |-> Len(c.sign) + Len(c.digits)]
             /\ r.chars = IF n = clipped THEN [ec |-> "ok", x |-> n] ELSE [ec |-> "E_RANGE", x |-> 0]
    [] c.f = "notNumber" -> r = <<[x |-> 0, end |-> 0], [x |-> 0, end |-> 0]>>
    [] c.f = "vprintf" ->
         LET base == IF c.how.conv \in {"x", "X", "p"} THEN 16 ELSE 10
             bare == SelectSeq(r, LAMBDA x : x # 39)
             back == IF c.how.conv = "d" THEN strtol(bare, base) ELSE strtoul(bare, base)
         IN  back.x = c.n /\ Len(r) >= c.how.width
             /\ ("-" \in c.how.flags => At(r, 1) # 32) /\ ("-" \notin c.how.flags => Last(r) # 32)
    [] c.f = "thousands" ->
         /\ SelectSeq(r, LAMBDA x : x # 44) = Numeral(c.n, 10)
         /\ \A i \in 1 .. Len(r) : (r[i] = 44) <=> (i # 1 /\ (Len(r) - i) % 4 = 3)
    [] c.f = "vsnprintf" ->
         /\ r.n = c.n
         /\ \A i \in 1 .. 5 : r.buf[i] = IF i > c.size \/ i > c.n + 1 THEN 200 + i
                                         ELSE IF i = c.size \/ i = c.n + 1 THEN NUL ELSE 96 + i
    [] c.f = "round" ->
         /\ c.x > 0 => r.down \in Powers /\ r.down <= c.x /\ c.x < 2 * r.down
         /\ c.x > 0 => r.up \in Powers /\ c.x <= r.up /\ r.up < 2 * c.x
         /\ c.x > 0 => c.x % 2 ^ (r.lsb - 1) = 0 /\ c.x % 2 ^ r.lsb # 0
         /\ r.page[1] % 4 = 0 /\ c.x - r.page[1] \in 0 .. 3
         /\ r.page[2] % 4 = 0 /\ (r.page[2] - c.x \in 0 .. 3 \/ (r.page[2] = 0 /\ c.x > UlongMax - 3))
    [] c.f = "rand" ->
         LET of(x) == Cardinality({q \in DOMAIN r : r[q] = x}) IN
         \A x \in 3 .. 3 + c.max : of(x) > 0 /\ of(x) = of(3) /\ of(2) < c.max + 1

\* Every function of the library returns what it is for: copies also when they
\* overlap, never a byte read behind a NUL or written behind a buffer, the first of what is
\* sought, the number that
\* a numeral stands for or the nearest that a word holds, a text that reads back as the
\* number printed, and each number of a range from equally many values of rand().
LibraryIsExact == \A i \in DOMAIN result : Right(call, result[i])

=============================================================================
