---------------------------- MODULE ParseRecovery ----------------------------
(***************************************************************************)
(* Diagnostics after a parse error (parse_recover.rs): the strict parser   *)
(* is run again on what is left of the file, from a synchronization point  *)
(* behind each error, until enough errors are known.                       *)
(*                                                                         *)
(* A file is a sequence of bytes.  An identifier is one byte here: "kw" is *)
(* one of TOPLEVEL_KWS, "id" another; "end" is `;` or `]`; "w" starts a    *)
(* character of several bytes and "c" continues it.  The parser is outside *)
(* of this module: it reads the tokens of the language and may reject any. *)
(***************************************************************************)
EXTENDS Integers, Sequences, FiniteSets
LOCAL INSTANCE FiniteSetsExt

CONSTANTS Sources,      \* the files considered
          MaxErrors,    \* max_errors, at least 1
          UserErrors    \* whether literals out of range occur (`=>?` actions)

RecoveryAssumption ==
  MaxErrors \in Nat \ {0} /\ UserErrors \in BOOLEAN /\ \A s \in Sources : Len(s) > 0

VARIABLES
  src,      \* the file
  pos,      \* where the next attempt starts
  diags,    \* diagnostics so far
  tries,    \* guard: attempts so far
  result    \* "running", "done", or "panicked" on a slice within a character

vars == <<src, pos, diags, tries, result>>

Size == Len(src)
Blank == "nl"
Max2(a, b) == IF a < b THEN b ELSE a

-----------------------------------------------------------------------------
\* The scanner of next_sync_point and depth_before, and of the language's own
\* lexer, whose string literals know no escapes.  How byte i+1 is read if byte
\* i is read as mode says; "skip" is a byte that is passed over.
Follow(mode, i, escapes) ==
  CASE mode = "comment" -> IF src[i] = Blank THEN "code" ELSE "comment"
    [] mode = "string" -> IF src[i] = "\\" /\ escapes /\ i < Size THEN "skip"
                          ELSE IF src[i] = "\"" THEN "code" ELSE "string"
    [] mode = "skip" -> IF src[i] = "/" /\ src[i - 1] = "/" THEN "comment" ELSE "string"
    [] OTHER -> IF src[i] = "/" /\ i < Size /\ src[i + 1] = "/" THEN "skip"
                ELSE IF src[i] = "\"" THEN "string" ELSE "code"

Scan(from, escapes) ==
  LET m[i \in from..(Size + 1)] ==
        IF i = from THEN "code" ELSE Follow(m[i - 1], i - 1, escapes)
  IN  m

CountOf(m, b, from, to) == Cardinality({ i \in from..(to - 1) : m[i] = "code" /\ src[i] = b })
Braces(m, from, to) == CountOf(m, "{", from, to) - CountOf(m, "}", from, to)

\* Mutant: braces count wherever they are, in comments and strings too.
DepthOfText(until) ==
  Cardinality({ i \in 1..(until - 1) : src[i] = "{" }) - Cardinality({ i \in 1..(until - 1) : src[i] = "}" })

\* depth_before: saturating_sub on an i32 does not stop at zero.
DepthBefore(until) == Braces(Scan(1, TRUE), 1, until)

SkipWs(i) == Min({ j \in i..(Size + 1) : j > Size \/ src[j] # Blank })

Nowhere == 0

\* next_sync_point
NextSync(from) ==
  LET m     == Scan(from, TRUE)
      depth == DepthBefore(from)
      At(i) == depth + Braces(m, from, i)
      stops == { i \in from..Size : /\ m[i] = "code"
                                    /\ \/ src[i] = "end"
                                       \/ src[i] = "}" /\ At(i + 1) = 0
                                       \/ src[i] = "kw" /\ At(i) = 0 }
      first == Min(stops)
  IN  IF from > Size \/ stops = {} THEN Nowhere
      ELSE IF src[first] = "kw" THEN first
      ELSE IF src[first] = "}" THEN SkipWs(first + 1) ELSE first + 1

-----------------------------------------------------------------------------
\* The parser on the slice from pos: its tokens, the first that is none, and
\* the ways to fail.  A declaration starts with a keyword.
Lexed == Scan(pos, FALSE)
Closing(i) == { j \in (i + 1)..Size : src[j] = "\"" }
Tokens == { i \in pos..Size : Lexed[i] = "code" /\ Lexed[i + 1] # "skip" /\ src[i] # Blank }
TokenEnd(i) == IF src[i] = "\"" THEN Min(Closing(i)) + 1 ELSE i + 1
Unclosed(i) == src[i] = "\"" /\ Closing(i) = {}
Invalid == { i \in Tokens : src[i] \in {"\\", "w", "c"} \/ Unclosed(i) }

Diag(code, start, end) == [code |-> code, start |-> start, end |-> end]
Rejected(t) == Diag("token", t, TokenEnd(t))
NoSpan == 0

Errors ==
  LET good == { t \in Tokens : \A i \in Invalid : t < i }
  IN  IF Tokens = {} THEN {}
      ELSE IF Min(Tokens) \in good /\ src[Min(Tokens)] # "kw" THEN { Rejected(Min(Tokens)) }
      ELSE { Rejected(t) : t \in good }
           \cup (IF Invalid = {} THEN { Diag("eof", TokenEnd(Max(Tokens)), TokenEnd(Max(Tokens))) }
                 ELSE { Diag("invalid", Min(Invalid), Min(Invalid) + 1) })
           \cup (IF UserErrors THEN { Diag("user", NoSpan, NoSpan) } ELSE {})

Accepts == Tokens # {} => Invalid = {} /\ src[Min(Tokens)] = "kw"

-----------------------------------------------------------------------------
\* A diagnostic without a span counts as one at pos.
Start(d) == IF d.code = "user" THEN pos ELSE d.start
End(d) == IF d.code = "user" THEN pos + 1 ELSE d.end
From(d) == Max2(End(d), pos + 1)

\* Mutant: an error is looked for among the last diagnostic's alone.
KnownLast(d) == pos > 1 /\ diags # << >> /\ diags[1] = d

\* The same span and the same code.
Known(d) == pos > 1 /\ \E k \in 1..Len(diags) : diags[k] = d

Beyond(d) == Max2(End(d) + 1, pos + 1)

Retry(d) ==
  IF Known(d) THEN Beyond(d)
  ELSE IF Start(d) \in (pos + 1)..Size /\ src[Start(d)] = "kw" THEN Start(d)
  ELSE IF NextSync(From(d)) > pos THEN NextSync(From(d)) ELSE Beyond(d)

More == result = "running" /\ Len(diags) < MaxErrors /\ pos <= Size /\ tries <= Size + 2

\* &src[pos..] within a character
Panic ==
  /\ More /\ src[pos] = "c"
  /\ result' = "panicked"
  /\ UNCHANGED <<src, pos, diags, tries>>

Accept ==
  /\ More /\ src[pos] # "c" /\ Accepts
  /\ result' = "done"
  /\ diags' = IF pos = 1 THEN << >> ELSE diags
  /\ tries' = tries + 1
  /\ UNCHANGED <<src, pos>>

Reject ==
  /\ More /\ src[pos] # "c"
  /\ \E d \in Errors :
       /\ diags' = IF Known(d) THEN diags ELSE Append(diags, d)
       /\ pos' = Retry(d)
  /\ tries' = tries + 1
  /\ UNCHANGED <<src, result>>

Stop ==
  /\ result = "running" /\ ~More
  /\ result' = "done"
  /\ UNCHANGED <<src, pos, diags, tries>>

Init ==
  /\ src \in Sources
  /\ pos = 1 /\ diags = << >> /\ tries = 0 /\ result = "running"

Next == Panic \/ Accept \/ Reject \/ Stop

Spec == Init /\ [][Next]_vars

-----------------------------------------------------------------------------
\* Type correctness; the walk stays within the file or ends right behind it.
TypeOK ==
  /\ pos \in 1..(Size + 2)
  /\ diags \in Seq([code : {"token", "invalid", "eof", "user"}, start : 0..(Size + 1), end : 0..(Size + 1)])
  /\ Len(diags) <= MaxErrors
  /\ result \in {"running", "done", "panicked"}

\* Every attempt starts behind the one before, so that the guard on the number
\* of attempts never cuts a recovery short.
EachTryAdvances == tries <= pos

\* The diagnostics come in the order of the file and none comes twice.
ErrorsInOrder ==
  \A j, k \in 1..Len(diags) : j < k =>
    /\ diags[j] # diags[k]
    /\ (diags[j].code # "user" /\ diags[k].code # "user") => diags[j].start <= diags[k].start

\* A byte of the file is at the top level if it is read as code, by the rules
\* of the language, and all braces before it are closed.
TopLevel(k) ==
  LET m == Scan(1, FALSE)
      open[i \in 1..k] ==
        IF i = 1 THEN 0
        ELSE IF m[i - 1] # "code" THEN open[i - 1]
        ELSE IF src[i - 1] = "{" THEN open[i - 1] + 1
        ELSE IF src[i - 1] = "}" THEN Max2(open[i - 1] - 1, 0) ELSE open[i - 1]
  IN  m[k] = "code" /\ open[k] = 0

\* "skip to the next synchronization point and retry", which is "at the next
\* top-level declaration keyword" or earlier: no declaration behind an error
\* is left out.
DeclarationsRetried ==
  [][tries' > tries => \A d \in Errors : Reject /\ pos' = Retry(d) =>
       \A k \in From(d)..(pos' - 1) : k <= Size /\ src[k] = "kw" => ~TopLevel(k)]_vars

\* Recovery retries "until --max-errors or EOF": it does not panic.
NeverPanics == result # "panicked"
=============================================================================
