------------------------------ MODULE MCLibrary ------------------------------
(***************************************************************************)
(* The parts under the pages: the reader and the block editor over a       *)
(* document and the importer behind it, the forms and the diff, the        *)
(* predicate of a playground, accounts, the prerequisite graph and the     *)
(* gate before the runner.  A behaviour is of one of them, part, and the   *)
(* others stay in one initial state: the states of the instance are those  *)
(* of the parts, one part after the other.                                 *)
(***************************************************************************)
EXTENDS Reader, ContentImport, Accounts, PrerequisiteGraph, RunGate,
        LineDiff, SafeExpr, YamlForms

CONSTANTS t1, t2, t3, t4

VARIABLE part

libraryVars == <<readerVars, docVars, accountVars, edgeVars, gateVars,
                 diffVars, exprVars, yamlVars, part>>

-----------------------------------------------------------------------------
(***************************************************************************)
(* Values of the constants.                                                *)
(***************************************************************************)

Blk(id, blockKind, layer, anchor) ==
    [id |-> id, kind |-> blockKind, layer |-> layer, anchor |-> anchor,
     order |-> id, dep |-> "", branch |-> {}, pair |-> ""]
If(b, dep, branch) == [b EXCEPT !.dep = dep, !.branch = branch]
Of(b, pair) == [b EXCEPT !.pair = pair]

\* A decision that opens a plot, a pair and a reset; and two plots of which a
\* phone shows the second first, before two blocks of one language.
MCDocs == {
  [misconceptions |-> FALSE, layered |-> TRUE, blocks |->
     <<Blk(1, "decision", "both", "d"), If(Blk(2, "plot", "both", "p"), "d", {"x"}),
       Of(Blk(3, "code_python", "both", ""), "k"), Of(Blk(4, "code_r", "both", ""), "k"),
       Blk(5, "state_reset", "both", "r"), Blk(6, "markdown", "formal", "f")>>],
  [misconceptions |-> TRUE, layered |-> TRUE, blocks |->
     <<Blk(1, "markdown", "intuition", "m"), Blk(2, "plot", "formal", "p"),
       [Blk(3, "plot", "formal", "q") EXCEPT !.order = 1],
       Of(If(Blk(4, "code_r", "both", ""), "d", {"x", "y"}), "k"),
       Of(Blk(5, "code_r", "formal", ""), "k"), Blk(6, "decision", "both", "d")>>]}

WordA == Tok("text", "a")
WordB == Tok("text", "b")
Multi(l) == Tok("multi", l)
MCTexts == {
  << >>,
  <<WordA, Multi(""), WordA, Close, Gap, Multi("formal"), WordB, Close, WordA>>,
  <<Tok("code", ""), Fence, Lang, WordA, Fence, Mark, WordB, Multi("both"), Close>>,
  <<WordB, Mark, Rule, Tok("single", ""), Tok("quiz", ""), Tok("single", ""), Close>>,
  <<Tok("unknown", ""), Multi(""), Tok("code", ""), Gap, Close, WordB, Mark>>}
MCTyped == {<<WordB, Multi(""), WordA, Close>>, <<Multi(""), WordB>>,
            <<Mark, WordA>>}
MCSnippets == {<<Tok("single", "")>>, <<Multi(""), WordA, Close>>}
MCBodies == {<<WordA>>, <<WordB>>}

MCSeeded == {<<t1, t3>>, <<t2, t3>>, <<t3, t4>>, <<t3, t2>>, <<t4, t1>>}

MCValueOf == [word \in {"1"} |-> 1]

At(pad, key, val) == YamlLine(pad, key, val)
MCPassages == {<< >>, <<At(0, "text", "one"), At(0, "", ""), At(0, "id", "a")>>,
               <<At(0, "", "")>>, <<At(0, "correct", "b"), At(0, "", "")>>}

\* A decision whose second option has a key that no form knows; one in
\* prose, which no form reads; a playground.
MCWritten == {
  [kind |-> "decision", body |->
     <<At(0, "question", "|"), At(2, "text", "why"), At(0, "options", ""),
       At(2, "id", "a"), At(4, "label", "yes"), At(4, "response", "|"), At(6, "text", "ok"),
       At(2, "id", "b"), At(4, "label", "no"), At(4, "writes", <<<<"k", "v">>>>),
       At(4, "hint", "x"), At(4, "response", "|"), At(6, "text", "lost"),
       At(0, "correct", "b")>>],
  [kind |-> "decision", body |-> <<At(0, "text", "free")>>],
  [kind |-> "playground", body |->
     <<At(0, "binds", <<"k">>), At(0, "controls", ""), At(2, "param", "p"), At(4, "min", "0"),
       At(0, "goal", ""), At(2, "prompt", "aim"), At(2, "on_success", "|"),
       At(4, "text", "done")>>]}

-----------------------------------------------------------------------------
(***************************************************************************)
(* One part after the other.                                               *)
(***************************************************************************)

\* A state of the edges in which a request waits, so that nothing is asked of
\* the graph while it is another's turn.
AnEdgeWaits ==
    /\ given = {} /\ edges = {}
    /\ adding = [[c \in Editor |-> NoEdge]
                    EXCEPT ![CHOOSE c \in Editor : TRUE] = <<t1, t2>>]

\* The initial states of each part, narrowed to one while it is another's turn.
LibraryInit ==
    /\ part \in {"reader", "editor", "accounts", "edges", "gate",
                 "diff", "expr", "forms"}
    /\ ReaderInit
    /\ part # "reader" => rd.doc.misconceptions /\ rd.wide /\ rd.layer = "both"
    /\ DocInit
    /\ part # "editor" => value = << >>
    /\ AccountsInit
    /\ part # "accounts" => \A who \in Account : role[who] = "admin"
    /\ IF part = "edges" THEN PrerequisiteInit ELSE AnEdgeWaits
    /\ GateInit
    /\ part # "gate" => docker
    /\ DiffInit
    /\ part # "diff" => master = <<Blank>>
    /\ ExprInit
    /\ scope["abs"] = Undefined
    /\ part # "expr" => scope["x"] = Undefined
    /\ YamlInit
    /\ part # "forms" => kind = "playground"

\* The parts whose turn it is not stay as they are.
Turns(one) ==
    /\ part = one /\ UNCHANGED part
    /\ IF one = "reader" THEN TRUE ELSE UNCHANGED readerVars
    /\ IF one = "editor" THEN TRUE ELSE UNCHANGED docVars
    /\ IF one = "accounts" THEN TRUE ELSE UNCHANGED accountVars
    /\ IF one = "edges" THEN TRUE ELSE UNCHANGED edgeVars
    /\ IF one = "gate" THEN TRUE ELSE UNCHANGED gateVars
    /\ IF one = "diff" THEN TRUE ELSE UNCHANGED diffVars
    /\ IF one = "expr" THEN TRUE ELSE UNCHANGED exprVars
    /\ IF one = "forms" THEN TRUE ELSE UNCHANGED yamlVars

ReaderStep == Turns("reader") /\ ReaderNext
EditorStep == Turns("editor") /\ DocNext
AccountsStep == Turns("accounts") /\ AccountsNext
EdgesStep == Turns("edges") /\ PrerequisiteNext
GateStep == Turns("gate") /\ GateNext
DiffStep == Turns("diff") /\ DiffNext
ExprStep == Turns("expr") /\ ExprNext
FormsStep == Turns("forms") /\ YamlNext

LibraryNext ==
    \/ ReaderStep \/ EditorStep \/ AccountsStep \/ EdgesStep
    \/ GateStep \/ DiffStep \/ ExprStep \/ FormsStep

\* Of the parts only the gate waits for something.
LibrarySpec == LibraryInit /\ [][LibraryNext]_libraryVars /\ GateFairness

-----------------------------------------------------------------------------
\* The part whose turn it is keeps its types.
LibraryTypeOK ==
    CASE part = "reader" -> ReaderTypeOK
      [] part = "editor" -> DocTypeOK [] part = "accounts" -> AccountsTypeOK
      [] part = "edges" -> PrerequisiteTypeOK [] part = "gate" -> GateTypeOK
      [] part = "diff" -> DiffTypeOK [] part = "expr" -> ExprTypeOK
      [] part = "forms" -> YamlTypeOK
=============================================================================
