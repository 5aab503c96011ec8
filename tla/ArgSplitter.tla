------------------------------ MODULE ArgSplitter ------------------------------
(***************************************************************************)
(* The argument splitter (src/parsing/splitter.go, src/parsing/quoting.go): *)
(* the text of a free form action, of an extra variable or of a lookup term *)
(* is cut into parameters, and these into named options and raw parameters. *)
(*                                                                         *)
(* A text is a sequence of lines and a line the sequence of tokens that     *)
(* strings.Split leaves between its spaces (never none: an empty line is    *)
(* one empty token).  A token is a record of what the splitter can see of   *)
(* it:                                                                     *)
(*   word    its spelling                                                   *)
(*   quotes  its unescaped quote characters, in order                       *)
(*   net     opening minus closing delimiters of each kind of block         *)
(*   key     what stands before its first unescaped "=", Escaped when every *)
(*           "=" is escaped (or is its first character), NoKey without one  *)
(*   head    the quote the value (the token, when it has no key) begins     *)
(*           with, tail the quote it ends with, after decodeEscapes         *)
(*   esc     it holds escapes that decodeEscapes resolves                   *)
(* A parameter is the sequence of tokens and blanks it is put together      *)
(* from.                                                                   *)
(***************************************************************************)
EXTENDS Integers, Sequences, FiniteSets, SequencesExt

CONSTANT Words                      \* the tokens a text is written with

Kinds == {"print", "block", "comment"}        \* {{ }}, {% %} and {# #}
NoQuote == "none"
NoKey == "nokey"
Escaped == "escaped"

Plain(w) == [word |-> w, quotes |-> <<>>, net |-> [k \in Kinds |-> 0],
             key |-> NoKey, head |-> NoQuote, tail |-> NoQuote, esc |-> FALSE]

Empty == Plain("")
Space == Plain(" ")
Newline == Plain("\n")
Continuation == Plain("\\")

Tokens == Words \cup {Empty, Continuation}

ASSUME WordsAssumption ==
  \A w \in Words : /\ w \notin {Empty, Space, Newline, Continuation}
                   /\ DOMAIN w = DOMAIN Empty

\* The texts one token longer, on the same or on a new line.
Longer(text) ==
  UNION {{Append(text, <<t>>), [text EXCEPT ![Len(text)] = Append(@, t)]} : t \in Tokens}

Size(text) == FoldLeft(LAMBDA n, line : n + Len(line), 0, text)

Blank(piece) == piece \in {Space, Newline}
NonBlank(pieces) == SelectSeq(pieces, LAMBDA x : ~Blank(x))
Pieces(t) == IF t = Empty THEN <<>> ELSE <<t>>

----------------------------------------------------------------------------
(* splitArgs.  The state of its loops: the parameters so far, the quote and *)
(* the blocks that are open, whether the line was continued, and whether it *)
(* indexed the last of no parameters (a Go panic).                          *)

Cut == [params |-> <<>>, quote |-> NoQuote, depth |-> [k \in Kinds |-> 0],
        continued |-> FALSE, panic |-> FALSE]

InBlock(depth) == \E k \in Kinds : depth[k] > 0

GetQuoteState(quote, t) ==
  FoldLeft(LAMBDA q, c : IF q = NoQuote THEN c ELSE IF c = q THEN NoQuote ELSE q,
           quote, t.quotes)

CountJinja2Blocks(depth, t) ==
  [k \in Kinds |-> IF depth[k] + t.net[k] < 0 THEN 0 ELSE depth[k] + t.net[k]]

ExtendLast(s, pieces) ==
  IF s.params = <<>> THEN [s EXCEPT !.panic = TRUE]
  ELSE [s EXCEPT !.params[Len(s.params)] = @ \o pieces]


\* The token goes on the parameter the open quote or block belongs to.
Rejoin(s, line, i) ==
  LET spacer == IF i = 1 /\ s.quote # NoQuote THEN <<>>
                ELSE IF Len(line) = 1 THEN <<Newline>>
                ELSE IF i > 1 THEN <<Space>> ELSE <<>>
  IN ExtendLast(s, spacer \o Pieces(line[i]))

Place(s, line, i, quote) ==
  IF \/ quote # NoQuote /\ s.quote = NoQuote /\ ~InBlock(s.depth)
     \/ quote = NoQuote /\ s.quote = NoQuote /\ ~InBlock(s.depth) /\ line[i] # Empty
  THEN [s EXCEPT !.params = Append(@, <<line[i]>>)]
  ELSE IF InBlock(s.depth) \/ s.quote # NoQuote THEN Rejoin(s, line, i)
  ELSE s

SplitToken(s, line, i) ==
  LET quote == GetQuoteState(s.quote, line[i])
  IN IF line[i] = Empty /\ i > 1 THEN ExtendLast(s, <<Space>>)
     ELSE IF line[i] = Continuation /\ s.quote = NoQuote
     THEN [s EXCEPT !.continued = TRUE]
     ELSE [Place(s, line, i, quote) EXCEPT
             !.quote = quote, !.depth = CountJinja2Blocks(s.depth, line[i])]

\* A line that another follows ends in a newline, unless it was continued.
EndLine(s, last) == IF last \/ s.continued THEN s ELSE ExtendLast(s, <<Newline>>)

SplitLine(s, text, l) ==
  EndLine(FoldLeft(LAMBDA u, i : SplitToken(u, text[l], i), [s EXCEPT !.continued = FALSE],
                   [i \in 1..Len(text[l]) |-> i]),
          l = Len(text))

\* A quote or a block that is open at the end is an error, and with an error
\* no parameter is returned.
Returned(s) ==
  LET err == s.quote # NoQuote \/ InBlock(s.depth)
  IN [params |-> IF err THEN <<>> ELSE s.params, err |-> err, panic |-> s.panic]

SplitArgs(text) ==
  Returned(FoldLeft(LAMBDA t, l : SplitLine(t, text, l), Cut, [l \in 1..Len(text) |-> l]))

----------------------------------------------------------------------------
(* ParseKeyValuePairsString.                                                *)

IgnoredFromRawParams == {"creates", "removes", "chdir", "executable", "warn", "stdin",
                         "stdin_add_newline", "strip_empty_ends"}

JoinArgs(params) ==
  FoldLeft(LAMBDA r, p : IF r = <<>> \/ Last(r) = Newline THEN r \o p
                         ELSE r \o <<Space>> \o p,
           <<>>, params)

DecodeEscapes(param) == [i \in DOMAIN param |-> [param[i] EXCEPT !.esc = FALSE]]

\* The positions of the pieces with an equals sign that separates a key.
Separators(x) == {i \in DOMAIN x : x[i].key \notin {NoKey, Escaped}}

UnescapeEquals(x) ==
  [i \in DOMAIN x |-> IF x[i].key = Escaped THEN [x[i] EXCEPT !.key = NoKey] ELSE x[i]]

\* strings.TrimSpace; no value begins with a blank.
TrimSpace(x) ==
  SubSeq(x, 1, Max({0} \cup {i \in DOMAIN x : ~Blank(x[i])}))

Unquote(x) ==
  [text |-> x,
   unquoted |-> /\ x # <<>>
                /\ Head(x).head # NoQuote
                /\ Last(x).tail = Head(x).head]

\* The key is spelled with the words before the equals sign, the value is
\* the rest of the token that holds it and what follows.
KeyOf(x) ==
  LET i == Min(Separators(x)) IN Append([j \in 1..(i - 1) |-> x[j].word], x[i].key)
ValueOf(x) ==
  LET i == Min(Separators(x))
  IN Unquote(TrimSpace(<<[x[i] EXCEPT !.key = NoKey]>> \o SubSeq(x, i + 1, Len(x))))

NoOptions == [named |-> <<>>, raw |-> <<>>]

\* x is the parameter after decodeEscapes.
ParseDecoded(opts, param, x, checkRaw) ==
  LET asRaw(p) == [opts EXCEPT !.raw = Append(@, p)]
  IN IF \A i \in DOMAIN x : x[i].key = NoKey THEN asRaw(param)
     ELSE IF Separators(x) = {} THEN asRaw(UnescapeEquals(x))
     ELSE IF checkRaw /\ KeyOf(x) \notin {<<k>> : k \in IgnoredFromRawParams}
     THEN asRaw(param)
     ELSE [opts EXCEPT !.named = (KeyOf(x) :> ValueOf(x)) @@ @]

ParseParam(opts, param, checkRaw) == ParseDecoded(opts, param, DecodeEscapes(param), checkRaw)

\* What is left over becomes one option.
WithRawParams(opts) ==
  opts.named @@ (IF opts.raw = <<>> THEN <<>>
                 ELSE <<"_raw_params">> :> [text |-> JoinArgs(opts.raw), unquoted |-> FALSE])

\* The error ends here: an unbalanced text yields no option at all, and nobody
\* is told.
KeyValuePairs(s, checkRaw) ==
  IF s.err THEN <<>>
  ELSE WithRawParams(FoldLeft(LAMBDA o, p : ParseParam(o, p, checkRaw), NoOptions, s.params))

ParseKeyValuePairsString(text, checkRaw) == KeyValuePairs(SplitArgs(text), checkRaw)

----------------------------------------------------------------------------
(* What the splitter is for, stated over the text and not over its loops:   *)
(* flat is the sequence of the text's tokens with their places.             *)

Flat(text) ==
  FlattenSeq([l \in DOMAIN text |->
    [i \in DOMAIN text[l] |-> [token |-> text[l][i], first |-> i = 1, line |-> l]]])

\* The quote and the blocks that are open where token n begins.
QuoteAt(flat, n) ==
  FoldLeft(LAMBDA q, x : GetQuoteState(q, x.token), NoQuote, SubSeq(flat, 1, n - 1))
DepthAt(flat, n) ==
  FoldLeft(LAMBDA d, x : CountJinja2Blocks(d, x.token), [k \in Kinds |-> 0],
           SubSeq(flat, 1, n - 1))

\* A backslash of its own outside quotes is dropped and continues its line,
\* wherever in the line it stands.
Continues(flat, n) == flat[n].token = Continuation /\ QuoteAt(flat, n) = NoQuote
IsWord(flat, n) == flat[n].token # Empty /\ ~Continues(flat, n)

\* A parameter begins at each word outside quotes and blocks.
Starts(flat) ==
  SelectSeq([n \in DOMAIN flat |-> n],
            LAMBDA n : IsWord(flat, n) /\ QuoteAt(flat, n) = NoQuote /\ ~InBlock(DepthAt(flat, n)))

\* The words of the i-th parameter: up to where the next begins.
Members(flat, starts, i) ==
  {n \in starts[i]..(IF i = Len(starts) THEN Len(flat) ELSE starts[i + 1] - 1) :
     IsWord(flat, n)}

\* The text from token n to token m as it was written.
Stretch(flat, n, m) ==
  Pieces(flat[n].token)
    \o FoldLeft(LAMBDA s, x : s \o <<IF x.first THEN Newline ELSE Space>> \o Pieces(x.token),
                <<>>, SubSeq(flat, n + 1, m))

\* From n to m no line is continued and none ends in an open block.
OnlyQuoted(flat, n, m) ==
  \A r \in (n + 1)..m :
    /\ InBlock(DepthAt(flat, r)) => ~flat[r].first /\ ~Continues(flat, r)
    /\ flat[r].first =>
         \A c \in DOMAIN flat : flat[c].line = flat[r].line - 1 => ~Continues(flat, c)

\* A quote or a block is open where the text ends.
Unbalanced(flat) ==
  QuoteAt(flat, Len(flat) + 1) # NoQuote \/ InBlock(DepthAt(flat, Len(flat) + 1))

\* Exactly this text and then nothing but blanks.
ThenBlanks(param, exact) ==
  /\ IsPrefix(exact, param)
  /\ \A n \in (Len(exact) + 1)..Len(param) : Blank(param[n])

\* The parameter holds the words at the places ws, in their order; and one in
\* which no block spans lines and no line is continued is the text from its
\* first to its last word, blank for blank.
ParamIs(param, flat, ws) ==
  /\ NonBlank(param)
       = [n \in 1..Cardinality(ws) |->
            flat[CHOOSE w \in ws : Cardinality({v \in ws : v <= w}) = n].token]
  /\ OnlyQuoted(flat, Min(ws), Max(ws)) => ThenBlanks(param, Stretch(flat, Min(ws), Max(ws)))

\* The parameters begin at the words outside quotes and blocks and hold the
\* words up to the next of these.
ParamsAre(params, flat, starts) ==
  /\ Len(params) = Len(starts)
  /\ \A i \in DOMAIN params : ParamIs(params[i], flat, Members(flat, starts, i))

\* A parameter with a key: of a free form action only a keyword's.
IsNamed(param, checkRaw) ==
  /\ Separators(param) # {}
  /\ checkRaw => Min(Separators(param)) = 1 /\ param[1].key \in IgnoredFromRawParams

\* The words from the first equals sign on.
ValueWords(param) ==
  NonBlank([n \in 1..(Len(param) - Min(Separators(param)) + 1) |->
              [param[n + Min(Separators(param)) - 1] EXCEPT
                 !.esc = FALSE, !.key = IF n = 1 THEN NoKey ELSE @]])

\* The options are the parameters with a key, each with the words after its
\* equals sign, of several with one key the last; and the others' words, in
\* their order, are the raw parameters, which exist only if there is one.
OptionsAre(options, params, checkRaw) ==
  LET named == {i \in DOMAIN params : IsNamed(params[i], checkRaw)}
      raw == SelectSeq(params, LAMBDA p : ~IsNamed(p, checkRaw))
      spelled(x) == [n \in DOMAIN x |-> x[n].word]
  IN /\ DOMAIN options = {KeyOf(params[i]) : i \in named}
                            \cup (IF raw = <<>> THEN {} ELSE {<<"_raw_params">>})
     /\ \A i \in named :
          (\A j \in named : j > i => KeyOf(params[j]) # KeyOf(params[i])) =>
             NonBlank(options[KeyOf(params[i])].text) = ValueWords(params[i])
     /\ raw # <<>> => spelled(NonBlank(options[<<"_raw_params">>].text))
                        = spelled(NonBlank(FlattenSeq(raw)))

\* What SplitArgs and ParseKeyValuePairsString return for the tokens flat.
SplitKept(s, pairs, flat) ==
  IF s.panic THEN ~IsWord(flat, 1)
  ELSE /\ s.err = Unbalanced(flat)
       /\ ~s.err => ParamsAre(s.params, flat, Starts(flat))
       /\ \A checkRaw \in BOOLEAN :
            IF s.err THEN pairs[checkRaw] = <<>>
            ELSE OptionsAre(pairs[checkRaw], s.params, checkRaw)

\* Nothing of a balanced text is lost, reordered or moved to another parameter
\* or option; of an unbalanced one everything is lost, and only splitArgs says
\* so.  Only a text that does not begin with a word can crash the splitter.
ArgsKept(text) ==
  SplitKept(SplitArgs(text),
            [checkRaw \in BOOLEAN |-> ParseKeyValuePairsString(text, checkRaw)],
            Flat(text))
================================================================================
