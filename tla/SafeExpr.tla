------------------------------ MODULE SafeExpr ------------------------------
(***************************************************************************)
(* The predicates an author writes in a playground or a decision           *)
(* (frontend/src/lib/safeExpr.ts): words become tokens, a precedence       *)
(* climbing parser makes a tree of them and a walker evaluates the tree in *)
(* the reader's topic state.  Characters are abstracted to words; strings  *)
(* are out, and so is division, whose results need fractions.              *)
(***************************************************************************)
EXTENDS Integers, Sequences, FiniteSets

CONSTANTS Word,      \* the words the author types
          Number,    \* those that are number literals, and
          ValueOf,   \* the value of each
          Name,      \* those that are identifiers
          MaxWords   \* bound: words of an expression

ASSUME ExprAssumption ==
  /\ Number \subseteq Word /\ Name \subseteq Word
  /\ ValueOf \in [Number -> Int] /\ MaxWords \in Nat

VARIABLES expr,   \* the expression as typed so far, a sequence of words
          scope,  \* what the topic state holds under each name
          met     \* what safeBool answers

exprVars == <<expr, scope, met>>

(* A value: a number, NaN, a Boolean, or nothing for a name never set.     *)
Num(n) == [is |-> "num", n |-> n]
NaN == [is |-> "nan", n |-> 0]
Bool(b) == [is |-> "bool", n |-> IF b THEN 1 ELSE 0]
Undefined == [is |-> "none", n |-> 0]
Truthy(v) == v.is \in {"num", "bool"} /\ v.n # 0
AsNumber(v) == IF v.is \in {"num", "bool"} THEN Num(v.n) ELSE NaN

(* Operators by how tightly they bind; KEYWORDS spells three of them out.  *)
PRECEDENCE == [op \in {"||", "&&", "==", "!=", "<", "<=", ">", ">=", "+", "-", "*"} |->
  CASE op = "||" -> 1
    [] op = "&&" -> 2
    [] op \in {"+", "-"} -> 4
    [] op = "*" -> 5
    [] OTHER -> 3]
KEYWORDS == [and |-> "&&", or |-> "||", not |-> "!", true |-> "1", false |-> "0"]
FUNCTIONS == {"abs", "min", "max"}

Operator(word) == word \in DOMAIN PRECEDENCE \cup {"!"}
Known(word) ==
  \/ word \in DOMAIN KEYWORDS \cup {"(", ")", ","} \cup Number \cup Name
  \/ Operator(word)

(* A word that is no token throws at its place, before anything is parsed. *)
TokenOf(word) ==
  CASE word \in {"true", "false"} ->
         [type |-> "num", word |-> word, n |-> IF word = "true" THEN 1 ELSE 0]
    [] word \in DOMAIN KEYWORDS \ {"true", "false"} ->
         [type |-> "op", word |-> KEYWORDS[word], n |-> 0]
    [] Operator(word) -> [type |-> "op", word |-> word, n |-> 0]
    [] word \in Number -> [type |-> "num", word |-> word, n |-> ValueOf[word]]
    [] word \in Name -> [type |-> "ident", word |-> word, n |-> 0]
    [] OTHER -> [type |-> "mark", word |-> word, n |-> 0]
Tokens(words) == [k \in DOMAIN words |-> TokenOf(words[k])]

(* What the parser has read: a tree, and the place of the next token.  An  *)
(* error has no place to go on from, and every caller passes it on.        *)
Leaf(t) == [kind |-> t.type, op |-> t.word, n |-> t.n, args |-> << >>]
Node(kind, op, args) == [kind |-> kind, op |-> op, n |-> 0, args |-> args]
Got(node, pos) == [ok |-> TRUE, node |-> node, pos |-> pos]
Thrown == [ok |-> FALSE, node |-> Node("error", "", << >>), pos |-> 0]
Is(ts, pos, word) == pos \in DOMAIN ts /\ ts[pos].word = word /\ ts[pos].type # "num"

RECURSIVE parseBinary(_, _, _), climb(_, _, _), parseUnary(_, _),
          parsePrimary(_, _), arguments(_, _, _)

(* The word the loop stands at binds too loosely for this level, or no     *)
(* operator stands there.                                                  *)
Stops(ts, pos, minPrec) ==
  \/ pos \notin DOMAIN ts \/ ts[pos].type # "op"
  \/ ts[pos].word \notin DOMAIN PRECEDENCE
  \/ PRECEDENCE[ts[pos].word] < minPrec

(* Mutant: the operator's own level, and operators of one level associate  *)
(* to the right.                                                           *)
RightLevelSame(op) == PRECEDENCE[op]
(* What the operand on the right must bind at least as tightly as. *)
RightLevel(op) == PRECEDENCE[op] + 1

parseBinary(ts, pos, minPrec) == climb(ts, parseUnary(ts, pos), minPrec)
climb(ts, left, minPrec) ==
  IF ~left.ok \/ Stops(ts, left.pos, minPrec) THEN left
  ELSE LET op == ts[left.pos].word
           right == parseBinary(ts, left.pos + 1, RightLevel(op))
       IN  IF right.ok
           THEN climb(ts, Got(Node("bin", op, <<left.node, right.node>>), right.pos), minPrec)
           ELSE Thrown

parseUnary(ts, pos) ==
  IF Is(ts, pos, "!") \/ Is(ts, pos, "-")
  THEN LET arg == parseUnary(ts, pos + 1)
       IN  IF arg.ok THEN Got(Node("unary", ts[pos].word, <<arg.node>>), arg.pos) ELSE Thrown
  ELSE parsePrimary(ts, pos)

(* The arguments of a call, from the one at pos on. *)
arguments(ts, pos, args) ==
  LET one == parseBinary(ts, pos, 0)
  IN  IF ~one.ok THEN Thrown
      ELSE IF Is(ts, one.pos, ",") THEN arguments(ts, one.pos + 1, Append(args, one.node))
      ELSE Got(Node("call", "", Append(args, one.node)), one.pos)

Bracketed(ts, got, node) ==
  IF got.ok /\ Is(ts, got.pos, ")") THEN Got(node, got.pos + 1) ELSE Thrown

(* A group, a call of a function of the list, a name, or a number. *)
parsePrimary(ts, pos) ==
  IF pos \notin DOMAIN ts THEN Thrown
  ELSE IF ts[pos].type = "num" THEN Got(Leaf(ts[pos]), pos + 1)
  ELSE IF Is(ts, pos, "(")
  THEN LET e == parseBinary(ts, pos + 1, 0) IN Bracketed(ts, e, e.node)
  ELSE IF ts[pos].type # "ident" THEN Thrown
  ELSE IF ~Is(ts, pos + 1, "(") THEN Got(Leaf(ts[pos]), pos + 1)
  ELSE LET got == IF Is(ts, pos + 2, ")") THEN Got(Node("call", "", << >>), pos + 2)
                  ELSE arguments(ts, pos + 2, << >>)
       IN  IF ts[pos].word \in FUNCTIONS
           THEN Bracketed(ts, got, [got.node EXCEPT !.op = ts[pos].word])
           ELSE Thrown

(* The operators on values; a comparison with NaN is false both ways.      *)
Compare(op, l, r) ==
  /\ l.is # "nan" /\ r.is # "nan"
  /\ CASE op = "<" -> l.n < r.n
       [] op = "<=" -> l.n <= r.n
       [] op = ">" -> l.n > r.n
       [] op = ">=" -> l.n >= r.n
Alike(l, r) == (l = r /\ l.is # "nan") \/ (AsNumber(l) = AsNumber(r) /\ AsNumber(l).is # "nan")
Arith(op, l, r) ==
  IF l.is = "nan" \/ r.is = "nan" THEN NaN
  ELSE Num(CASE op = "+" -> l.n + r.n [] op = "-" -> l.n - r.n [] op = "*" -> l.n * r.n)
Apply(op, l, r) ==
  CASE op = "&&" -> Bool(Truthy(l) /\ Truthy(r))
    [] op = "||" -> Bool(Truthy(l) \/ Truthy(r))
    [] op = "==" -> Bool(Alike(l, r))
    [] op = "!=" -> Bool(~Alike(l, r))
    [] op \in {"<", "<=", ">", ">="} -> Bool(Compare(op, AsNumber(l), AsNumber(r)))
    [] OTHER -> Arith(op, AsNumber(l), AsNumber(r))
Negated(op, a) == IF op = "!" THEN Bool(~Truthy(a)) ELSE Arith("-", Num(0), AsNumber(a))

(* min and max of no argument are the infinities: numbers past all others. *)
Infinity == 1000
Call(name, args) ==
  IF name = "abs"
  THEN IF args = << >> THEN NaN ELSE IF args[1].is = "nan" THEN NaN
       ELSE Num(IF args[1].n < 0 THEN -args[1].n ELSE args[1].n)
  ELSE IF args = << >> THEN Num(IF name = "min" THEN Infinity ELSE -Infinity)
  ELSE IF \E k \in DOMAIN args : args[k].is = "nan" THEN NaN
  ELSE CHOOSE v \in {args[k] : k \in DOMAIN args} : \A k \in DOMAIN args :
         IF name = "min" THEN v.n <= args[k].n ELSE v.n >= args[k].n

(* A name is looked up when it is reached; a Boolean there counts 0 or 1.  *)
LookedUp(name) == IF scope[name].is = "bool" THEN AsNumber(scope[name]) ELSE scope[name]

RECURSIVE evalNode(_)
evalNode(node) ==
  LET arg(k) == evalNode(node.args[k])
  IN  CASE node.kind = "num" -> Num(node.n)
        [] node.kind = "ident" -> LookedUp(node.op)
        [] node.kind = "unary" -> Negated(node.op, arg(1))
        [] node.kind = "bin" -> Apply(node.op, arg(1), arg(2))
        [] node.kind = "call" -> Call(node.op, [k \in DOMAIN node.args |-> AsNumber(arg(k))])

(* Nothing typed, or anything thrown, is false. *)
safeEval(words) ==
  LET read == parseBinary(Tokens(words), 1, 0)
  IN  IF words = << >> \/ \E k \in DOMAIN words : ~Known(words[k]) THEN Bool(FALSE)
      ELSE IF read.ok THEN evalNode(read.node) ELSE Bool(FALSE)
safeBool(words) == Truthy(safeEval(words))

ExprInit ==
  /\ expr = << >>
  /\ scope \in [Name -> {Undefined, Num(2), Bool(TRUE)}]
  /\ met = FALSE

Type(word) ==
  /\ Len(expr) < MaxWords
  /\ expr' = Append(expr, word)
  /\ met' = safeBool(expr')
  /\ UNCHANGED scope

ExprNext == \E word \in Word : Type(word)
ExprSpec == ExprInit /\ [][ExprNext]_exprVars
-----------------------------------------------------------------------------
ExprTypeOK ==
  /\ expr \in Seq(Word) /\ Len(expr) <= MaxWords
  /\ \A name \in Name : scope[name].is \in {"num", "bool", "none"}
  /\ met \in BOOLEAN

(* What an expression means, without a parser: it is split at the operator *)
(* that binds loosest outside every pair of parentheses, the last of them  *)
(* if there are several, and its two sides have meanings of their own.     *)
Depth(ts, k) == Cardinality({j \in 1 .. k - 1 : Is(ts, j, "(")})
                - Cardinality({j \in 1 .. k - 1 : Is(ts, j, ")")})
Infix(ts) == {k \in 2 .. Len(ts) - 1 :
  /\ ts[k].word \in DOMAIN PRECEDENCE /\ Depth(ts, k) = 0
  /\ ts[k - 1].type \in {"num", "ident"} \/ Is(ts, k - 1, ")")}
Loosest(ts) == CHOOSE k \in Infix(ts) : \A j \in Infix(ts) :
  \/ PRECEDENCE[ts[k].word] < PRECEDENCE[ts[j].word]
  \/ PRECEDENCE[ts[k].word] = PRECEDENCE[ts[j].word] /\ j <= k
Means(v) == [ok |-> TRUE, v |-> v]
Meaningless == [ok |-> FALSE, v |-> Undefined]
Wrapped(ts, k) == Len(ts) > k /\ Is(ts, k, "(") /\ Is(ts, Len(ts), ")")

RECURSIVE Meaning(_)
Meaning(ts) ==
  LET both == <<Meaning(SubSeq(ts, 1, Loosest(ts) - 1)),
                Meaning(SubSeq(ts, Loosest(ts) + 1, Len(ts)))>>
      rest == Meaning(Tail(ts))
      call == Meaning(SubSeq(ts, 3, Len(ts) - 1))
  IN  IF ts = << >> THEN Meaningless
      ELSE IF Infix(ts) # {}
      THEN IF both[1].ok /\ both[2].ok
           THEN Means(Apply(ts[Loosest(ts)].word, both[1].v, both[2].v)) ELSE Meaningless
      ELSE IF Is(ts, 1, "!") \/ Is(ts, 1, "-")
      THEN IF rest.ok THEN Means(Negated(ts[1].word, rest.v)) ELSE Meaningless
      ELSE IF Len(ts) = 1 /\ ts[1].type = "num" THEN Means(Num(ts[1].n))
      ELSE IF Len(ts) = 1 /\ ts[1].type = "ident" THEN Means(LookedUp(ts[1].word))
      ELSE IF Wrapped(ts, 1) THEN Meaning(SubSeq(ts, 2, Len(ts) - 1))
      ELSE IF Wrapped(ts, 2) /\ ts[1].word = "abs" /\ call.ok
      THEN Means(Call("abs", <<AsNumber(call.v)>>))
      ELSE Meaningless

(* A predicate that can be read is answered as it reads: the operators     *)
(* that bind tighter first, those of one level from the left, a negation   *)
(* before either, whatever the reader's state holds or has never set.      *)
ReadsAsWritten ==
  LET meaning == Meaning(Tokens(expr))
  IN  (meaning.ok /\ \A k \in DOMAIN expr : Known(expr[k])) => met = Truthy(meaning.v)
=============================================================================
