------------------------------- MODULE Header -------------------------------
(***************************************************************************)
(* The header of the generated assembly, and what other units link to.     *)
(* Units are compiled on their own, one after the other here: each becomes *)
(* a table of its global names, which CODEGEN_program reads in the order   *)
(* of a hash table, any order here, to write the header's lines.           *)
(* Instructions and lines of export name a line of the header by its       *)
(* number among those of its kind, and units name each other's variables   *)
(* and functions by strings.                                               *)
(***************************************************************************)
EXTENDS Naturals, Sequences, FiniteSets, SequencesExt

CONSTANT Builds   (* programs: sequences of units, sets of declarations: their *)
                  (* order shows in nothing that is modelled here          *)

(* Names are sequences: the name <<x>>, and <<x, n>> for "__x_n".          *)
GlobalDef(type, x, dims, export) ==
  [node |-> "globaldef", type |-> type, id |-> x, dims |-> dims, export |-> export]
GlobalDec(type, x, ids) == [node |-> "globaldec", type |-> type, id |-> x, ids |-> ids]
FunDef(type, f, params, export) ==
  [node |-> "fundef", type |-> type, id |-> f, params |-> params, export |-> export]
FunDec(type, f, params) == [node |-> "fundec", type |-> type, id |-> f, params |-> params]
Param(type, dims)       == [type |-> type, dims |-> dims]

IsDeclaration(d) ==
  /\ d.node \in {"globaldef", "globaldec", "fundef", "fundec"}
  /\ d.node = "globaldef" => d.dims \in Nat
  /\ d.node = "globaldec" => DOMAIN d.ids = 1 .. Len(d.ids) /\ Len(d.ids) \in Nat
  /\ d.node \in {"fundef", "fundec"} =>
       d.params \in Seq(ToSet(d.params)) /\ \A i \in DOMAIN d.params : d.params[i].dims \in Nat

ASSUME BuildsAssumption ==
  \A b \in Builds : /\ b \in Seq(SUBSET UNION {b[u] : u \in DOMAIN b})
                    /\ b # <<>>
                    /\ \A u \in DOMAIN b : \A d \in b[u] : IsDeclaration(d)

VARIABLES
  build,    (* the units                                                   *)
  unit,     (* the one that is compiled                                    *)
  phase,    (* its phase, in the end "linked"                              *)
  decls,    (* its declarations                                            *)
  pending,  (* keys of its table that the iteration has before it          *)
  next,     (* global_i, importvar_i and importfun_i                       *)
  table,    (* of each unit: its global symbol table                       *)
  index,    (* codegen_index of entries that have one                      *)
  header,   (* the lines written                                           *)
  code      (* an instruction for each name that could be used             *)

vars == <<build, unit, phase, decls, pending, next, table, index, header, code>>

Zero == [global |-> 0, importvar |-> 0, importfun |-> 0]

Init ==
  /\ build \in Builds
  /\ unit = 1 /\ phase = "extract"
  /\ decls = build[1]
  /\ pending = {} /\ next = Zero
  /\ table  = [u \in DOMAIN build |-> <<>>]
  /\ index  = [u \in DOMAIN build |-> <<>>]
  /\ header = [u \in DOMAIN build |-> <<>>]
  /\ code   = [u \in DOMAIN build |-> {}]

(***************************************************************************)
(* Before code generation.                                                 *)
(***************************************************************************)
(* Faulty variants stand before the definition that they are variants of.  *)
(* Faulty: the dimensions of an array stay inside of the unit.             *)
InternalDims(d) == {GlobalDef("int", Append(d.id, 2 * (i - 1)), 0, FALSE) : i \in 1 .. d.dims}

(* Each dimension becomes a variable; the number in its name goes up by    *)
(* one after it was used and once more in the call for the rest.           *)
mkGlobalDefExprs(d) == {GlobalDef("int", Append(d.id, 2 * (i - 1)), 0, d.export) : i \in 1 .. d.dims}

Of(ds, node) == {d \in ds : d.node = node}

(* An exported function that initializes is added as well.                 *)
Extracted(ds) ==
  ds \cup (UNION {mkGlobalDefExprs(d) : d \in Of(ds, "globaldef")})
     \cup {FunDef("void", <<"__init">>, <<>>, TRUE)}

ExtractAndInit ==
  /\ phase = "extract"
  /\ decls' = Extracted(decls)
  /\ phase' = "symtables"
  /\ UNCHANGED <<build, unit, pending, next, table, index, header, code>>

Type(type, dims) == <<type, IF dims > 0 THEN "array" ELSE "scalar">>
Entry(linkage, user_id, type, argtypes) ==
  [linkage |-> linkage, user_id |-> user_id, type |-> type, argtypes |-> argtypes]
Linkage(d) == IF d.export THEN "export" ELSE "internal"

(* Faulty: an array counts as one of its elements.                         *)
ElementTypes(params) == [i \in DOMAIN params |-> Type(params[i].type, 0)]

(* Arrays count once: their dimensions are no parameters yet.              *)
ArgTypes(params) == [i \in DOMAIN params |-> Type(params[i].type, params[i].dims)]

(* The entries that declarations make, with their keys.  A dimension of    *)
(* another unit's array is known by the name in the declaration, and gets  *)
(* the name for linking by its number.                                     *)
EntriesOf(ds) ==
  {<<<<"var", d.id>>, Entry(Linkage(d), d.id, Type(d.type, d.dims), <<>>)>>
     : d \in Of(ds, "globaldef")}
  \cup {<<<<"var", d.id>>, Entry("extern", d.id, Type(d.type, Len(d.ids)), <<>>)>>
           : d \in Of(ds, "globaldec")}
  \cup (UNION {{<<<<"var", d.ids[i]>>, Entry("extern", Append(d.id, i - 1), Type("int", 0), <<>>)>>
                   : i \in DOMAIN d.ids} : d \in Of(ds, "globaldec")})
  \cup {<<<<"fun", d.id>>, Entry(Linkage(d), d.id, Type(d.type, 0), ArgTypes(d.params))>>
           : d \in Of(ds, "fundef")}
  \cup {<<<<"fun", d.id>>, Entry("extern", d.id, Type(d.type, 0), ArgTypes(d.params))>>
           : d \in Of(ds, "fundec")}

(* A name that is declared twice was an error, or a failed assertion of    *)
(* symtable_insert: no header is written then.                             *)
ASSUME NamesAssumption ==
  \A b \in Builds : \A u \in DOMAIN b :
    \A e, f \in EntriesOf(Extracted(b[u])) : e[1] = f[1] => e = f

InitSymtables ==
  /\ phase = "symtables"
  /\ LET entries == EntriesOf(decls)
         keys == {e[1] : e \in entries}
     IN  /\ table' = [table EXCEPT ![unit] =
                        [k \in keys |-> (CHOOSE e \in entries : e[1] = k)[2]]]
         /\ pending' = keys
  /\ phase' = "header"
  /\ next' = Zero
  /\ UNCHANGED <<build, unit, decls, index, header, code>>

(***************************************************************************)
(* CODEGEN_program.                                                        *)
(***************************************************************************)
Emit(lines) == header' = [header EXCEPT ![unit] = @ \o lines]
Number(k, counter) ==
  /\ index' = [index EXCEPT ![unit] = [l \in DOMAIN @ \cup {k} |-> IF l = k THEN next[counter] ELSE @[l]]]
  /\ next' = [next EXCEPT ![counter] = @ + 1]

ExportVar(k, e, n) == [dir |-> "exportvar", key |-> k, user_id |-> e.user_id, global |-> n]
Line(dir, k, e)    == [dir |-> dir, key |-> k, user_id |-> e.user_id, type |-> e.type,
                       argtypes |-> e.argtypes]

Iterate(k) ==
  /\ phase = "header" /\ k \in pending
  /\ pending' = pending \ {k}
  /\ UNCHANGED <<build, unit, phase, decls, table, code>>

(* Faulty: an exported variable's number is taken after it was counted.    *)
GlobalVariableMiscounted(k) ==
  LET e == table[unit][k]
  IN  /\ Iterate(k)
      /\ k[1] = "var" /\ e.linkage \in {"export", "internal"}
      /\ Emit((IF e.linkage = "export" THEN <<ExportVar(k, e, next.global + 1)>> ELSE <<>>)
                \o <<Line("global", k, e)>>)
      /\ Number(k, "global")

(* An exported variable has two lines: where the code falls through.       *)
GlobalVariable(k) ==
  LET e == table[unit][k]
  IN  /\ Iterate(k)
      /\ k[1] = "var" /\ e.linkage \in {"export", "internal"}
      /\ Emit((IF e.linkage = "export" THEN <<ExportVar(k, e, next.global)>> ELSE <<>>)
                \o <<Line("global", k, e)>>)
      /\ Number(k, "global")

ImportedVariable(k) ==
  /\ Iterate(k)
  /\ k[1] = "var" /\ table[unit][k].linkage = "extern"
  /\ Emit(<<Line("importvar", k, table[unit][k])>>)
  /\ Number(k, "importvar")

Function(k) ==
  LET e == table[unit][k]
  IN  /\ Iterate(k)
      /\ k[1] = "fun"
      /\ \/ /\ e.linkage = "export"
            /\ Emit(<<Line("exportfun", k, e)>>)
            /\ UNCHANGED <<index, next>>
         \/ /\ e.linkage = "extern"
            /\ Emit(<<Line("importfun", k, e)>>)
            /\ Number(k, "importfun")
         \/ /\ e.linkage = "internal"
            /\ UNCHANGED <<header, index, next>>

HeaderDone ==
  /\ phase = "header" /\ pending = {}
  /\ phase' = "codegen"
  /\ UNCHANGED <<build, unit, decls, pending, next, table, index, header, code>>

(***************************************************************************)
(* The instructions for a use of each name: a load or store of a variable, *)
(* a call with what it pushes, the dimensions of an array before it.       *)
(***************************************************************************)
Access(k) ==
  [of |-> k, dir |-> IF table[unit][k].linkage = "extern" THEN "importvar" ELSE "global",
   n |-> index[unit][k]]

Pushed(params) ==
  FlattenSeq([i \in DOMAIN params |->
    [j \in 1 .. params[i].dims |-> Type("int", 0)] \o <<Type(params[i].type, params[i].dims)>>])
ParamsOf(f) == (CHOOSE d \in decls : d.node \in {"fundec", "fundef"} /\ d.id = f).params

ExternCall(k) ==
  [of |-> k, dir |-> "importfun", n |-> index[unit][k], pushed |-> Pushed(ParamsOf(k[2]))]

Codegen ==
  /\ phase = "codegen"
  /\ code' = [code EXCEPT ![unit] =
       {Access(k) : k \in {l \in DOMAIN table[unit] : l[1] = "var"}}
         \cup {ExternCall(k) : k \in {l \in DOMAIN table[unit] :
                                        l[1] = "fun" /\ table[unit][l].linkage = "extern"}}]
  /\ IF unit < Len(build)
     THEN unit' = unit + 1 /\ phase' = "extract" /\ decls' = build[unit + 1]
     ELSE phase' = "linked" /\ UNCHANGED <<unit, decls>>
  /\ UNCHANGED <<build, pending, next, table, index, header>>

Next ==
  \/ ExtractAndInit \/ InitSymtables
  \/ \E k \in pending : GlobalVariable(k) \/ ImportedVariable(k) \/ Function(k)
  \/ HeaderDone \/ Codegen

Spec == Init /\ [][Next]_vars

(***************************************************************************)
(* Properties.  The assembler numbers the lines of each kind from 0.       *)
(***************************************************************************)
Numbered(h, p) == Cardinality({q \in 1 .. p - 1 : h[q].dir = h[p].dir})

(* The line of the header h that is number n of its kind.                  *)
IsLine(h, p, dir, n) == p \in DOMAIN h /\ h[p].dir = dir /\ Numbered(h, p) = n

Names(h, dir, n, k) == \E p \in DOMAIN h : IsLine(h, p, dir, n) /\ h[p].key = k

(* Whatever order the hash table has, the number in an instruction is that *)
(* of the line of the name that it uses, and an exported variable's number *)
(* that of its own.                                                        *)
NumbersHitTheirLine ==
  \A u \in DOMAIN build :
    /\ \A i \in code[u] : Names(header[u], i.dir, i.n, i.of)
    /\ \A e \in ToSet(header[u]) :
         e.dir = "exportvar" => Names(header[u], "global", e.global, e.key)

(* An import and an export of one name, as the linker joins them.          *)
Joined(u, i, v, e) ==
  /\ i \in ToSet(header[u]) /\ e \in ToSet(header[v])
  /\ <<i.dir, e.dir>> \in {<<"importvar", "exportvar">>, <<"importfun", "exportfun">>}
  /\ i.user_id = e.user_id

Exporter(u, x, node, v, d) ==
  u # v /\ d \in build[v] /\ d.node = node /\ d.id = x /\ d.export

(* A name that another unit declares and this one uses is linked to what   *)
(* it stands for: a variable or array to that of its name, the first       *)
(* dimension to the array's first; not however the other dimensions: the   *)
(* second finds no export and the third finds the second.                  *)
LinkedTo(u, k, v, target) ==
  \E i \in ToSet(header[u]), e \in ToSet(header[v]) :
    i.key = k /\ Joined(u, i, v, e) /\ e.key = target
ImportsFindTheirVariable ==
  phase = "linked" =>
    \A u, v \in DOMAIN build : \A c \in build[u] :
      /\ c.node = "globaldec" =>
           \A d \in build[v] : Exporter(u, c.id, "globaldef", v, d) =>
             /\ LinkedTo(u, <<"var", c.id>>, v, <<"var", c.id>>)
             /\ \A i \in DOMAIN c.ids : i <= d.dims =>
                  \/ LinkedTo(u, <<"var", c.ids[i]>>, v, <<"var", Append(d.id, 2 * (i - 1))>>)
                  \/ i > 1
      /\ c.node = "fundec" =>
           \A d \in build[v] : Exporter(u, c.id, "fundef", v, d) =>
             LinkedTo(u, <<"fun", c.id>>, v, <<"fun", c.id>>)

(* pushed is types with some numbers put in before each of its arrays.     *)
WithNumbers(types, pushed) ==
  \E at \in [0 .. Len(types) -> 0 .. Len(pushed)] :
    /\ at[0] = 0 /\ at[Len(types)] = Len(pushed)
    /\ \A i \in DOMAIN types :
         /\ at[i - 1] < at[i] /\ pushed[at[i]] = types[i]
         /\ \A n \in at[i - 1] + 1 .. at[i] - 1 :
              pushed[n] = Type("int", 0) /\ types[i][2] = "array"

(* A call of another unit's function pushes what the function's line says  *)
(* that it takes, and before an array its dimensions, which the line       *)
(* leaves out.  Both sides of a link give one signature if they declare    *)
(* one.                                                                    *)
CallsMatchSignatures ==
  /\ \A u \in DOMAIN build : \A c \in code[u] : c.dir = "importfun" =>
       \A p \in DOMAIN header[u] : IsLine(header[u], p, "importfun", c.n) =>
         WithNumbers(header[u][p].argtypes, c.pushed)
  /\ \A u, v \in DOMAIN build : \A i \in ToSet(header[u]), e \in ToSet(header[v]) :
       Joined(u, i, v, e) /\ i.dir = "importfun" =>
         \A c \in build[u], d \in build[v] :
           /\ c.node = "fundec" /\ d.node = "fundef" /\ c.id = d.id /\ c.id = i.key[2]
           /\ c.type = d.type /\ c.params = d.params
           => i.type = e.type /\ i.argtypes = e.argtypes
=============================================================================
