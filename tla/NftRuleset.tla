------------------------------ MODULE NftRuleset ------------------------------
(***************************************************************************)
(* The nftables ruleset as nftlb sees it through libnftables: a set of     *)
(* kernel objects and the statements that change it.  This is the          *)
(* environment of the engine in nft.c, not code of the repository: the     *)
(* rules below are the nf_tables semantics that decide whether a statement *)
(* of a batch succeeds.                                                    *)
(*                                                                         *)
(*   - "add" of an existing table, chain, map or element is a no-op; it    *)
(*     fails when the container (table, chain or map) is missing or when   *)
(*     the object it refers to (a map for a rule, a chain for a goto       *)
(*     element, a flowtable for a flow rule) is missing;                   *)
(*   - "del" fails when the object is missing or still referenced, and     *)
(*     removes everything the object contains;                            *)
(*   - "flush" of a chain or set fails when it is missing and removes its  *)
(*     rules or elements;                                                  *)
(*   - nft_run_cmd_from_buffer applies a buffer as ONE transaction: if a   *)
(*     statement fails, none of the buffer is applied.                     *)
(***************************************************************************)
EXTENDS Sequences, SequencesExt

NoRef == <<"none">>

\* Object identifiers.  The first component names the kind of object.
Table(fam)              == <<"table", fam>>
BaseChain(fam, st)      == <<"bchain", fam, st>>
SvcMap(fam, st, sh)     == <<"smap", fam, st, sh>>
MarkMap(fam, sh)        == <<"mmap", fam, sh>>
FarmChain(fam, st, f)   == <<"fchain", fam, st, f>>
Elem(fam, st, sh, f)    == <<"elem", fam, st, sh, f>>
MarkElem(fam, sh, f)    == <<"melem", fam, sh, f>>
Rule(ch, tag, ref)      == <<"rule", ch, tag, ref>>
PolSet(fam, p)          == <<"pset", fam, p>>
SetElem(fam, p, x)      == <<"selem", fam, p, x>>
FlowTable(fam, f)       == <<"ftable", fam, f>>

Kind(o) == o[1]

\* The farm chain the elements of a stage's service map jump to: the
\* output stages reuse the chains of the prerouting stages, whose names
\* get_farm_chain gives them too (nft.c:802-818).
ChainStage(st) == CASE st = "OUT_FILTER" -> "PRE_FILTER"
                    [] st = "OUT_DNAT"   -> "PRE_DNAT"
                    [] OTHER             -> st

\* The object that contains o (a table contains itself).
Parent(o) ==
  CASE Kind(o) = "table" -> o
    [] Kind(o) = "elem"  -> SvcMap(o[2], o[3], o[4])
    [] Kind(o) = "melem" -> MarkMap(o[2], o[3])
    [] Kind(o) = "selem" -> PolSet(o[2], o[3])
    [] Kind(o) = "rule"  -> o[2]
    [] OTHER             -> Table(o[2])

\* The object o refers to: the map of a rule, the goto chain of an element.
Ref(o) ==
  CASE Kind(o) = "rule" -> o[4]
    [] Kind(o) = "elem" -> FarmChain(o[2], ChainStage(o[3]), o[5])
    [] OTHER            -> NoRef

\* o lies inside c (objects nest at most three deep: table, chain, rule).
Inside(o, c) == Parent(o) = c \/ Parent(Parent(o)) = c

Statement(op, o) == [op |-> op, obj |-> o]

Accepts(k, s) ==
  LET o == s.obj IN
  CASE s.op = "add"   -> (Kind(o) = "table" \/ Parent(o) \in k)
                          /\ (Ref(o) = NoRef \/ Ref(o) \in k)
    [] s.op = "del"   -> o \in k /\ ~\E x \in k : Ref(x) = o /\ ~Inside(x, o)
    [] s.op = "flush" -> o \in k

Exec(k, s) ==
  LET o == s.obj IN
  CASE s.op = "add"   -> k \cup {o}
    [] s.op = "del"   -> {x \in k : x # o /\ ~Inside(x, o)}
    [] s.op = "flush" -> {x \in k : ~(Kind(x) \in {"rule", "selem"} /\ Parent(x) = o)}

\* One statement of a buffer run as a transaction: the pair
\* <<all statements so far valid, ruleset after them>>.
TxStep(acc, s) ==
  IF acc[1] /\ Accepts(acc[2], s) THEN <<TRUE, Exec(acc[2], s)>>
                                ELSE <<FALSE, acc[2]>>

\* nft_run_cmd_from_buffer on a batch: <<accepted, resulting ruleset>>.
RunBatch(k, stmts) ==
  LET r == FoldLeft(TxStep, <<TRUE, k>>, stmts)
  IN  IF r[1] THEN r ELSE <<FALSE, k>>

\* With the serialize option every statement is its own buffer: failing
\* statements are dropped and the others applied.
SerialStep(acc, s) ==
  IF Accepts(acc[2], s) THEN <<acc[1], Exec(acc[2], s)>>
                      ELSE <<FALSE, acc[2]>>

RunSerial(k, stmts) == FoldLeft(SerialStep, <<TRUE, k>>, stmts)

\* Every object of the ruleset has its container present.
WellFormed(k) == \A o \in k : Parent(o) \in k
=============================================================================
