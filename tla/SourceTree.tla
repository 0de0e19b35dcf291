----------------------------- MODULE SourceTree -----------------------------
(***************************************************************************)
(* The compiler's input: the files below the compiler root and what the    *)
(* module compiler (internal/codegen/modules.go) reads from each of them.  *)
(*                                                                         *)
(* A file is a path; its text is reduced to the facts that load, emit and  *)
(* emitSplit branch on: how the file reads and parses, its import list in  *)
(* source order, the functions it declares, exports and describes with     *)
(* `declare function`, and the functions its statements call.  Exported    *)
(* values and classes are left out: load treats them as it treats          *)
(* functions, but for the bare-name registration that only functions get.  *)
(***************************************************************************)
EXTENDS Naturals, Sequences

CONSTANTS
  Path,       \* absolute paths, of Besht files and of raw shell files
  Name,       \* function names
  Prefix,     \* shell identifiers a module's functions are prefixed with
  NoPath,     \* stands for "no path"
  Bare,       \* the key prefix of an unqualified function name
  Entry,      \* the file given on the command line
  Stdlib,     \* stdlib.d.bsh beside the entry file
  Decl,       \* the paths that end in .d.bsh
  Raw,        \* the paths that end in .sh
  PrefixOf,   \* modNameToPrefix(pathToModName(p)) of every path p
  AllowExternal  \* --opt-allow-external-shell-imports

ASSUME PathAssumption ==
  /\ NoPath \notin Path
  /\ Entry \in Path
  /\ Stdlib \in Path
  /\ Decl \subseteq Path
  /\ Stdlib \in Decl
  /\ Raw \subseteq Path \ {Entry, Stdlib}

ASSUME NameAssumption ==
  /\ PrefixOf \in [Path -> Prefix]
  /\ Bare \notin Prefix
  /\ AllowExternal \in BOOLEAN

(***************************************************************************)
(* How the compiler fares with a file: "outside" the compiler root,        *)
(* "missing", there but not to be read as a file (a "directory"), rejected *)
(* by the parser ("unparsable"), by the validator for a reason of its own  *)
(* ("invalid"), by the command analysis ("badcmd"), by the validations of  *)
(* --check alone ("badcheck") or by the generator alone ("badgen"),        *)
(* without statements ("empty"), or an ordinary program or shell script    *)
(* ("code").                                                               *)
(***************************************************************************)
Content == {"outside", "missing", "directory", "unparsable", "invalid",
            "badcmd", "badcheck", "badgen", "empty", "code"}

\* An import declaration.  One is "malformed" whatever its file holds: a .sh
\* source without the assertion, or a shell import that has a default name,
\* has no names, or has a source that does not end in .sh.
Import == {imp \in [kind : {"besht", "shell", "malformed"}, path : Path, names : SUBSET Name] :
             /\ imp.kind = "besht" => imp.path \notin Raw
             /\ imp.kind = "shell" => imp.path \in Raw /\ imp.names # {}}

SourceTrees == [content  : [Path -> Content],
                imports  : [Path -> Seq(Import)],
                defs     : [Path -> SUBSET Name],
                exports  : [Path -> SUBSET Name],
                declares : [Path -> SUBSET Name],
                calls    : [Path -> SUBSET Name]]

\* Keys of Compiler.globalSigs and names of shell functions at run time.
Key == (Prefix \cup {Bare}) \X Name

BareKey(n) == <<Bare, n>>
QualKey(p, n) == <<PrefixOf[p], n>>

IsShell(imp) == imp.kind = "shell"

\* resolveShellImportPath: a shell import is a file that exists and lies
\* inside the root.
ShellOk(t, imp) ==
  \/ t.content[imp.path] \notin {"missing", "directory", "outside"}
  \/ AllowExternal /\ t.content[imp.path] = "outside"

\* validateImport, as load calls it for every import.
ImportOk(t, imp) ==
  /\ imp.kind # "malformed"
  /\ IsShell(imp) => ShellOk(t, imp)

\* The Besht files whose load the import list of p asks for.
BeshtImports(t, p) ==
  {q \in Path : \E i \in 1..Len(t.imports[p]) : t.imports[p][i].kind = "besht" /\ t.imports[p][i].path = q}

\* load pulls in stdlib.d.bsh beside the entry before the entry's own imports,
\* whenever something of that name is there, a file or not.
UsesStdlib(t) == Stdlib # Entry /\ t.content[Stdlib] # "missing"

\* Every file that loading p loads directly.
LoadedBy(t, p) == BeshtImports(t, p) \cup (IF p = Entry /\ UsesStdlib(t) THEN {Stdlib} ELSE {})

\* S holds everything that loading a member of S loads.
ClosedUnderLoads(t, S) == \A p \in S : LoadedBy(t, p) \subseteq S

\* Loading q loads p, directly or through other files: the import of q by p is
\* part of a cycle.
Reaches(t, q, p) == \A S \in SUBSET Path : q \in S /\ ClosedUnderLoads(t, S) => p \in S

=============================================================================
