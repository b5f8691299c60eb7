--------------------------- MODULE MCPreprocessor ---------------------------
(***************************************************************************)
(* Preprocessor on a small instance: three files, two packages, one macro. *)
(***************************************************************************)
EXTENDS Preprocessor

CONSTANTS main, a, b, p, q, missing

case(c) == Line("case", c)
default == Line("default", "")
switch == Line("switch", "")
end == Line("end", "")
text == Line("text", "")
package(name) == Line("package", name)
plugin(name) == Line("plugin", name)

\* Cases before and after one that holds, a default in between, a condition
\* on a macro, a Plugin and a Package line in a case, a missing file, and a
\* Plugswitch in a case of another.
SomeBlocks == {
    <<case("false"), text, case("true"), plugin(a), case("true"), text>>,
    <<default, package(q), text, case(q), text>>,
    <<case("true"), Line("include", missing), text>>,
    <<case("false"), switch, case("true"), text, end, case("true"), text>>,
    <<case("true"), switch, text, end, text, default, text>>}

\* A Plugin in a case, as the examples have it.
OnePluginBlock == {<<case("true"), plugin(a)>>}
=============================================================================
