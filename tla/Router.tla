------------------------------- MODULE Router -------------------------------
(***************************************************************************)
(* How a request's path becomes a service and a url of that service:       *)
(* hex_to_uint, check_path, percent_decode and get_service_and_url_path    *)
(* of nghttp2_callbacks.hpp, in the order in which on_header_callback and  *)
(* on_request_recv use them, and the target of the redirect that           *)
(* session.cpp sends to a plain HTTP/1 request.                            *)
(*                                                                         *)
(* Strings are sequences of bytes.  The library hands over any path that   *)
(* is not empty (that of OPTIONS or of another scheme need not start with  *)
(* a slash), followed in memory by a terminator and by bytes that are not  *)
(* the path's.                                                             *)
(***************************************************************************)
EXTENDS Integers, Sequences

CONSTANTS
  Byte,            \* the bytes of paths, without the terminator
  TargetByte,      \* the bytes of a plain request's target
  MaxLen,          \* bound on the length of a path and of a target
  Beyond,          \* what may follow a path's terminator in memory
  InlineSize,      \* bytes a std::string holds without allocating, 15
  PeekSize         \* bytes of a plain request that are looked at, 100

NUL == 0
Space == 32
Percent == 37
Dot == 46
Slash == 47
Question == 63
UpperG == 71
UpperH == 72
Backslash == 92

ASSUME RouterAssumption ==
  /\ Byte \subseteq 1..255 /\ TargetByte \subseteq 1..255
  /\ Beyond \subseteq 0..255
  /\ MaxLen \in Nat /\ InlineSize \in Nat
  /\ PeekSize \in Nat /\ PeekSize >= 3   \* the method, a space, a slash

VARIABLES
  stage,           \* waiting, headers, then how the request ended
  value,           \* the value of :path
  beyond,          \* the byte in memory after its terminator
  request_path,    \* stream_data::request_path
  service_name,    \* what get_service_and_url_path finds
  url_path,
  location         \* the path in the redirect's Location

vars == <<stage, value, beyond, request_path, service_name, url_path, location>>

Strings(bytes, n) == UNION {[1..k -> bytes] : k \in 0..n}

\* The first place of c in s from place i on, 0 for none.
Find(s, c, i) ==
  LET places == {j \in i..Len(s) : s[j] = c}
  IN  IF places = {} THEN 0 ELSE CHOOSE j \in places : \A k \in places : j <= k

---------------------------------------------------------------------------
(* Percent decoding.                                                       *)

IsXDigit(c) == c \in (48..57) \cup (65..70) \cup (97..102)

\* Mutant: letters count from zero.
HexToUint_DropsTen(c) ==
  IF c \in 48..57 THEN c - 48
  ELSE IF c \in 65..70 THEN c - 65
  ELSE IF c \in 97..102 THEN c - 97
  ELSE 0

HexToUint(c) ==
  IF c \in 48..57 THEN c - 48
  ELSE IF c \in 65..70 THEN c - 65 + 10
  ELSE IF c \in 97..102 THEN c - 97 + 10
  ELSE 0

IsEscape(s, i) ==
  /\ i + 2 <= Len(s)
  /\ s[i] = Percent /\ IsXDigit(s[i + 1]) /\ IsXDigit(s[i + 2])

Unescaped(s, i) == (HexToUint(s[i + 1]) * 16 + HexToUint(s[i + 2])) % 256

\* The loop of percent_decode over the first n bytes of memory, from i on.
\* It ends two bytes before the end, or after an escape that ends there,
\* and copies the next two bytes, which in the latter case are not the
\* path's.
DecodeFrom(memory, n) ==
  LET decode[i \in 1..(n + 1)] ==
        IF i > n - 2 THEN SubSeq(memory, i, i + 1)
        ELSE IF IsEscape(memory, i)
             THEN <<Unescaped(memory, i)>> \o decode[i + 3]
             ELSE <<memory[i]>> \o decode[i + 1]
  IN  decode[1]

\* The result has one byte more than was decoded, terminators at its end.
PadTo(s, n) == [i \in 1..n |-> IF i <= Len(s) THEN s[i] ELSE NUL]

\* Mutant: no room for the terminator.
PercentDecode_NoRoom(memory, n) ==
  PadTo(IF n > 3 THEN DecodeFrom(memory, n) ELSE SubSeq(memory, 1, n), n)

PercentDecode(memory, n) ==
  PadTo(IF n > 3 THEN DecodeFrom(memory, n) ELSE SubSeq(memory, 1, n), n + 1)

---------------------------------------------------------------------------
(* Acceptance and routing.                                                 *)

Contains(s, t) ==
  \E i \in 1..Len(s) : i + Len(t) - 1 <= Len(s)
                     /\ \A j \in 1..Len(t) : s[i + j - 1] = t[j]

\* Mutant: only parent directories are looked for.
CheckPath_ParentOnly(path) ==
  /\ path[1] = Slash
  /\ ~Contains(path, <<Backslash>>)
  /\ ~Contains(path, <<Slash, Dot, Dot>>)

\* "/../", "/./" and "/.." all contain "/.".
CheckPath(path) ==
  /\ path[1] = Slash
  /\ ~Contains(path, <<Backslash>>)
  /\ ~Contains(path, <<Slash, Dot>>)

\* get_service_and_url_path drops the last byte, the terminator.
WithoutLast(url) == SubSeq(url, 1, Len(url) - 1)

\* Mutant: the service loses its last byte.
SplitAt_ShortService(url_, service_pos) ==
  [service |-> SubSeq(url_, 2, service_pos - 2),
   url     |-> SubSeq(url_, service_pos, Len(url_))]

\* The results as far as their sizes reach, which is all that is seen of them
\* afterwards, provided the copies end inside their memory (CopiesFit).
SplitAt(url_, service_pos) ==
  [service |-> SubSeq(url_, 2, service_pos - 1),
   url     |-> SubSeq(url_, service_pos, Len(url_))]

ServiceAndUrl(url) ==
  LET url_ == WithoutLast(url)
      service_pos == Find(url_, Slash, 2)
  IN  IF url_ = <<Slash>> THEN [service |-> <<Slash>>, url |-> <<Slash>>]
      ELSE IF service_pos = 0
      THEN [service |-> <<Slash>>, url |-> SubSeq(url_, 2, Len(url_))]
      ELSE SplitAt(url_, service_pos)

\* The memory of a std::string that was resized from nothing to n bytes, with
\* its terminator.  libstdc++ keeps a short string in the object and allocates
\* at least twice that for a longer one.
Room(n) ==
  IF n <= InlineSize THEN InlineSize + 1
  ELSE IF n < 2 * InlineSize THEN 2 * InlineSize + 1
  ELSE n + 1

\* Behind a second slash, as many bytes as the whole path has are copied to
\* the url, which is shorter.  The copy to the service overruns its size by
\* one, which is the place of the terminator.
CopiesFit(url) ==
  LET url_ == WithoutLast(url)
      service_pos == Find(url_, Slash, 2)
  IN  service_pos # 0 => Len(url_) <= Room(Len(url_) - service_pos + 1)

---------------------------------------------------------------------------
(* The redirect of a plain request "GET <target> HTTP/1.1".                *)

\* The method is shortened to its first letter, the version to its own.
Peeked(target) ==
  PadTo(<<UpperG, Space>> \o target \o <<Space, UpperH>>, PeekSize)

\* Mutant: the space before the H is kept.
TargetOf_KeepsSpace(body) ==
  LET begin == Find(body, Slash, 1)
  IN  SubSeq(body, begin, Find(body, UpperH, begin) - 1)

\* The target reaches from the first slash to two bytes before the next H.
TargetOf(body) ==
  LET begin == Find(body, Slash, 1)
  IN  SubSeq(body, begin, Find(body, UpperH, begin) - 2)

---------------------------------------------------------------------------
Init ==
  /\ stage = "waiting"
  /\ value = <<>> /\ beyond = NUL
  /\ request_path = <<>> /\ service_name = <<>> /\ url_path = <<>>
  /\ location = <<>>

\* The path ends before the query.
PathLen(v) ==
  LET query == Find(v, Question, 1) IN IF query = 0 THEN Len(v) ELSE query - 1

\* on_header_callback for :path.
OnHeader(v, b) ==
  /\ stage = "waiting"
  /\ stage' = "headers"
  /\ value' = v /\ beyond' = b
  /\ request_path' = PercentDecode(v \o <<NUL, b>>, PathLen(v))
  /\ UNCHANGED <<service_name, url_path, location>>

\* on_request_recv: an error reply, or the lookup of a service.
Reject ==
  /\ stage = "headers" /\ ~CheckPath(request_path)
  /\ stage' = "rejected"
  /\ UNCHANGED <<value, beyond, request_path, service_name, url_path, location>>

Route ==
  /\ stage = "headers" /\ CheckPath(request_path) /\ CopiesFit(request_path)
  /\ stage' = "routed"
  /\ service_name' = ServiceAndUrl(request_path).service
  /\ url_path' = ServiceAndUrl(request_path).url
  /\ UNCHANGED <<value, beyond, request_path, location>>

\* The copy leaves the url's memory.  Nothing is claimed of what follows.
Overrun ==
  /\ stage = "headers" /\ CheckPath(request_path) /\ ~CopiesFit(request_path)
  /\ stage' = "undefined"
  /\ UNCHANGED <<value, beyond, request_path, service_name, url_path, location>>

\* session::run on a plain request.  Without an H the target's end lies
\* before its beginning, and std::string's constructor throws.
PlainRequest(target) ==
  LET body == Peeked(target)
  IN  /\ stage = "waiting"
      /\ value' = target
      /\ IF Find(body, UpperH, Find(body, Slash, 1)) = 0
         THEN stage' = "terminated" /\ UNCHANGED location
         ELSE /\ stage' = "redirected"
              /\ location' = IF TargetOf(body) = <<Slash>> THEN <<>>
                             ELSE TargetOf(body)
      /\ UNCHANGED <<beyond, request_path, service_name, url_path>>

Path == Strings(Byte, MaxLen) \ {<<>>}
Target == {<<Slash>> \o s : s \in Strings(TargetByte, MaxLen - 1)}

Next ==
  \/ stage = "waiting" /\ \E v \in Path, b \in Beyond : OnHeader(v, b)
  \/ Reject
  \/ Route
  \/ Overrun
  \/ stage = "waiting" /\ \E target \in Target : PlainRequest(target)

Spec == Init /\ [][Next]_vars

---------------------------------------------------------------------------
(* Properties.                                                             *)

Bytes == Seq(0..255)

TypeOK ==
  /\ stage \in {"waiting", "headers", "routed", "rejected", "redirected",
               "terminated", "undefined"}
  /\ value \in Bytes /\ beyond \in 0..255
  /\ request_path \in Bytes /\ service_name \in Bytes /\ url_path \in Bytes
  /\ location \in Bytes
  /\ stage \in {"headers", "routed", "rejected", "undefined"} =>
       /\ Len(request_path) = PathLen(value) + 1
       /\ request_path[Len(request_path)] = NUL

\* What a string stands for (RFC 3986): "%" and two hexadecimal digits stand
\* for one byte, to the end of the string.
DigitsOf(k) == IF k < 10 THEN {48 + k} ELSE {55 + k, 87 + k}

Escaped(s, i) ==
  IF i + 2 > Len(s) \/ s[i] # Percent THEN {}
  ELSE {b \in 0..255 : /\ s[i + 1] \in DigitsOf(b \div 16)
                       /\ s[i + 2] \in DigitsOf(b % 16)}

Reference(s) ==
  LET decode[i \in 1..(Len(s) + 1)] ==
        IF i > Len(s) THEN <<>>
        ELSE IF Escaped(s, i) = {} THEN <<s[i]>> \o decode[i + 1]
        ELSE <<CHOOSE b \in Escaped(s, i) : TRUE>> \o decode[i + 3]
  IN  decode[1]

\* What the file system sees of a string.
CString(s) ==
  LET end == Find(s, NUL, 1) IN IF end = 0 THEN s ELSE SubSeq(s, 1, end - 1)

RequestPath == SubSeq(value, 1, PathLen(value))

\* An escape that is the last of the path or the last but one byte.
EscapeAtEnd ==
  \E i \in 1..Len(RequestPath) :
    IsEscape(RequestPath, i) /\ i + 3 >= Len(RequestPath)

\* A path of three bytes that are an escape.
LoneEscape == Len(RequestPath) = 3 /\ IsEscape(RequestPath, 1)

\* percent_decode yields the path, every escape replaced, whatever follows it
\* in memory.  There are two exceptions.  In a path with a query that has an
\* escape among its last bytes, up to two bytes of the query are taken for the
\* path's; and a path of one escape is left as it is.
DecodesPath ==
  stage = "headers" /\ ~LoneEscape
    /\ (PathLen(value) = Len(value) \/ ~EscapeAtEnd) =>
      CString(request_path) = CString(Reference(RequestPath))

\* A path is accepted only if neither the service nor the url that come of it
\* have a segment that starts with a dot, however the dot was spelled, so
\* that no prefix of a document root leads outside of it (check_path).
StaysBelowRoot ==
  stage = "routed" =>
    \A s \in {service_name, url_path} :
      s # <<>> => s[1] # Dot /\ ~Contains(s, <<Slash, Dot>>)

\* get_service_and_url_path loses nothing of a path: the service, which is one
\* segment, and the url make it up again.  It is left open whether the slash
\* between them belongs to the url.
SplitRecomposes ==
  stage = "routed" =>
    LET path == WithoutLast(request_path)
    IN  IF service_name = <<Slash>>
        THEN path = <<Slash>> \/ path = <<Slash>> \o url_path
        ELSE /\ \E between \in {<<>>, <<Slash>>} :
                  path = <<Slash>> \o service_name \o between \o url_path
             /\ Slash \notin {service_name[i] : i \in 1..Len(service_name)}

\* A plain request is redirected to the target it asked for, if the target
\* has no H of its own and was peeked in full (session::run).
RedirectKeepsTarget ==
  stage \in {"redirected", "terminated"} =>
    \/ \E i \in 1..Len(value) : value[i] = UpperH
    \/ Len(value) + 4 > PeekSize
    \/ /\ stage = "redirected"
       /\ location = IF value = <<Slash>> THEN <<>> ELSE value
=============================================================================
