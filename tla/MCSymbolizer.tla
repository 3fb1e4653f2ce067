---------------------------- MODULE MCSymbolizer ----------------------------
(* Instances of Symbolizer for TLC.                                        *)
EXTENDS Symbolizer, TLC

Sym(v, s, n) == [value |-> v, size |-> s, name |-> n]
Map(s, e, o, f) == [start |-> s, end |-> e, offset |-> o, path |-> f]

MCFile == {"prog", "lib", "plugin", "lld", "kernel", "module", "hidden"}

\* prog has a function without a symbol, lib an alias and a symbol that is no
\* function, lld is linked with another base; module is loaded into kernel,
\* hidden is what an unprivileged reader of /proc/kallsyms sees.
MCCode ==
  "prog"   :> {Sym(2, 2, "main"), Sym(4, 2, "static"), Sym(6, 1, "leak")} @@
  "lib"    :> {Sym(1, 2, "xmalloc"), Sym(3, 2, "grow")} @@
  "plugin" :> {Sym(1, 4, "hook")} @@
  "lld"    :> {Sym(5, 2, "run")} @@
  "kernel" :> {Sym(20, 2, "alloc"), Sym(22, 2, "fork")} @@
  "module" :> {Sym(20, 2, "alloc"), Sym(22, 2, "fork"), Sym(25, 1, "init")} @@
  "hidden" :> {Sym(20, 2, "alloc")}

MCTable ==
  "prog"   :> <<Sym(6, 1, "leak"), Sym(2, 2, "main"), Sym(0, 1, "undefined")>> @@
  "lib"    :> <<Sym(1, 2, "xmalloc"), Sym(3, 2, "grow"), Sym(4, 0, "label"),
                Sym(3, 2, "grow_alias")>> @@
  "plugin" :> <<Sym(1, 4, "hook")>> @@
  "lld"    :> <<Sym(5, 2, "run")>> @@
  "kernel" :> <<Sym(22, 1, "fork"), Sym(20, 1, "alloc")>> @@
  "module" :> <<Sym(20, 1, "alloc"), Sym(22, 1, "fork"), Sym(25, 1, "init")>> @@
  "hidden" :> <<Sym(0, 1, "alloc"), Sym(0, 1, "fork")>>

MCBias == [f \in MCFile |-> IF f = "lld" THEN 3 ELSE 0]

\* The code of prog is two mappings; lib, plugin and lld may follow each other
\* at one place.
MCUserLayouts ==
  { <<Map(8, 10, 2, "prog"), Map(10, 13, 4, "prog"), Map(15, 19, 1, "lib")>>,
    <<Map(8, 10, 2, "prog"), Map(10, 13, 4, "prog"), Map(15, 19, 1, "plugin")>>,
    <<Map(8, 10, 2, "prog"), Map(10, 13, 4, "prog"), Map(15, 19, 2, "lld")>> }

Whole(f) == <<Map(0, 30, 0, f)>>

MCKernelLayouts == {Whole("kernel"), Whole("module"), Whole("hidden")}

=============================================================================
