------------------------------- MODULE Stubs -------------------------------
(***************************************************************************)
(* What scripts/autogen.py puts into each generated file, as operators on  *)
(* the syscall table: the helpers that process argument types, and one     *)
(* operator per stub function.  A table is the CSV as a sequence of rows;  *)
(* a file is the set of entries its stub function yields.  Type names stay *)
(* names; the two tables parsed from templates/*.template are functions.   *)
(* Layout and wording of an entry are abstracted away.                     *)
(***************************************************************************)
EXTENDS Integers, Sequences

CONSTANTS
    Basic,         \* BASIC_TYPES: C scalar type |-> WIT primitive
    Complex,       \* COMPLEX_TYPES: typedef |-> the type it abbreviates
    Bits,          \* the number of bits a WIT primitive's name spells
    S32,           \* the primitive s32
    Pointers,      \* the type names that end in '*'
    BasicPointers, \* those whose pointee is in BASIC_TYPES
    VoidPtr,       \* "void*"
    LongNames,     \* the type names that end in "long"
    Undef,         \* "UNDEF"
    Blank,         \* an empty CSV cell
    MaxArgs,       \* columns a1 .. a6
    CWidth,        \* external: wasm type clang gives an import parameter
    Resolve,       \* where rustify_args' lookups of a type end
    Diverges       \* ... if they never end

(* WIT_PRIMITIVE_SET, and COMBINED_TYPES.get(v, "UNDEF").                  *)
WitPrimitives == {Basic[b] : b \in DOMAIN Basic}

Combined(v) ==
    CASE v \in DOMAIN Complex -> Complex[v]
      [] v \in DOMAIN Basic \ DOMAIN Complex -> Basic[v]
      [] OTHER -> Undef

(* The names a lookup can meet.                                            *)
TypeNames ==
    DOMAIN Basic \cup DOMAIN Complex \cup WitPrimitives
        \cup {Complex[t] : t \in DOMAIN Complex} \cup {Undef}

(* Resolve is the outcome of the loop of rs_simplify, by its equation.     *)
ASSUME ResolveAssumption ==
    /\ S32 \in WitPrimitives /\ Bits[S32] = 32
    /\ Diverges \notin WitPrimitives
    /\ Undef \notin WitPrimitives \cup DOMAIN Basic \cup DOMAIN Complex \cup Pointers
    /\ (TypeNames \cup LongNames) \cap Pointers = {}
    /\ VoidPtr \in Pointers
    /\ Resolve[Undef] = Diverges
    /\ \A v \in TypeNames :
          IF v \in WitPrimitives THEN Resolve[v] = v
          ELSE Resolve[v] = Resolve[Combined(v)]

ASSUME ArgumentsAssumption == MaxArgs \in Nat

(* A wasm value type: "I" is i64, "i" is i32.                              *)
Width(p) == IF Bits[p] = 64 THEN "I" ELSE "i"

-----------------------------------------------------------------------------
(* The table.  parse_csv drops rows without a name; pandas types the       *)
(* '# Args' column as text as soon as one of its cells is blank, and only  *)
(* then is the cell "0" truthy.                                            *)
Live(c) == {i \in DOMAIN c : c[i].name # Blank}

ArgsColumnIsText(c) == \E i \in DOMAIN c : c[i].nargs = Blank

HasArgs(c, i) ==
    /\ c[i].nargs # Blank
    /\ c[i].nargs # 0 \/ ArgsColumnIsText(c)

Supported(c) == {i \in Live(c) : HasArgs(c, i)}

(* get_scargs indexes column a<k> and the last character of its cell: a    *)
(* row that promises more arguments than it has cells for raises.          *)
Malformed(c, i) ==
    /\ HasArgs(c, i)
    /\ c[i].nargs > MaxArgs \/ \E k \in 1 .. c[i].nargs : c[i].cells[k] = Blank

Replace(a) ==
    CASE a \in Pointers \cup DOMAIN Basic -> a
      [] a \in DOMAIN Complex \ (Pointers \cup DOMAIN Basic) -> Complex[a]
      [] OTHER -> Undef

RawArgs(c, i) ==
    [k \in 1 .. (IF HasArgs(c, i) THEN c[i].nargs ELSE 0) |-> c[i].cells[k]]

GetScargs(c, i) == [k \in DOMAIN RawArgs(c, i) |-> Replace(RawArgs(c, i)[k])]

FnName(r) == IF r.alias # Blank THEN r.alias ELSE r.name

PtrAnonymize(args) ==
    [k \in DOMAIN args |->
        IF args[k] \in Pointers \ BasicPointers THEN VoidPtr ELSE args[k]]

-----------------------------------------------------------------------------
(* gen_libc_stubs: the imports the C library declares and its switch from  *)
(* a syscall number to an import, and the same pair for Rust's libc.       *)
DefStubs(c) ==
    {[fn |-> FnName(c[i]), args |-> PtrAnonymize(GetScargs(c, i))] : i \in Live(c)}

CaseStubs(c) ==
    {[name |-> c[i].name, fn |-> FnName(c[i]),
      args |-> PtrAnonymize(GetScargs(c, i))] : i \in Supported(c)}

RustMatchStubs(c) ==
    {[name |-> c[i].name, fn |-> FnName(c[i]),
      arity |-> Len(GetScargs(c, i)), implemented |-> HasArgs(c, i)] : i \in Live(c)}

(* An entry of rust/defs.out, given the types rustify_args arrived at: a   *)
(* pointer is an i32, and s<bits> is only renamed i<bits>.                 *)
RustDefStub(r, tys) == [nr |-> r.nr, fn |-> FnName(r), args |-> tys]

RustType(a) == IF a \in Pointers THEN S32 ELSE Resolve[a]

RustifyArgs(args) == [k \in DOMAIN args |-> RustType(args[k])]

RustDefStubs(c) ==
    {RustDefStub(c[i], RustifyArgs(GetScargs(c, i))) : i \in Supported(c)}

(* The loop of rs_simplify ends on every argument of row i.                *)
Resolvable(c, i) ==
    \A k \in DOMAIN GetScargs(c, i) : RustType(GetScargs(c, i)[k]) \in WitPrimitives

(* gen_wamr_stubs: the host's declaration, body and native symbol.         *)
DeclrStubs(c) ==
    {[fn |-> FnName(c[i]), arity |-> Len(GetScargs(c, i))] : i \in Live(c)}

ImplStubs(c) ==
    {[fn |-> FnName(c[i]), arity |-> Len(GetScargs(c, i)),
      maddr |-> {k \in DOMAIN GetScargs(c, i) : GetScargs(c, i)[k] \in Pointers}]
     : i \in Supported(c)}

LongLongOnly(args) ==      \* mutant: endswith("long") is forgotten
    [k \in DOMAIN args |-> IF args[k] = "long long" THEN "I" ELSE "i"]

GenNativeArgs(args) ==
    [k \in DOMAIN args |-> IF args[k] \in LongNames THEN "I" ELSE "i"]

SymbolsOfRawArgs(c) ==     \* mutant: get_scargs(sc, False)
    {[fn |-> FnName(c[i]), sig |-> GenNativeArgs(RawArgs(c, i))] : i \in Supported(c)}

SymbolsStubs(c) ==
    {[fn |-> FnName(c[i]), sig |-> GenNativeArgs(GetScargs(c, i))] : i \in Supported(c)}

(* gen_wit_stubs: WIT keeps the type names of the CSV.                     *)
WitStubs(c) ==
    {[nr |-> c[i].nr, fn |-> FnName(c[i]), args |-> RawArgs(c, i)] : i \in Supported(c)}

(* gen_arch_diff_stubs: the syscalls an architecture gives the number -1.  *)
UndefinedOn(c, arch) == {c[i].name : i \in {j \in Live(c) : arch \in c[j].undef}}

(* gen_markdown_stubs: the table of supported syscalls and the rest of the *)
(* architectures' calls.                                                   *)
SupportTable(c, archCalls) ==
    LET supported == {c[i].name : i \in Supported(c)}
    IN  [supported |-> supported, unsupported |-> archCalls \ supported]
=============================================================================
