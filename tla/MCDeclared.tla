----------------------------- MODULE MCDeclared -----------------------------
(***************************************************************************)
(* Preprocessor with a record of the package that the file being compiled  *)
(* declared last, as the parser reads it: what the activation remembers    *)
(* may be another.                                                         *)
(***************************************************************************)
EXTENDS MCPreprocessor

VARIABLE declared

DeclaredInit == Init /\ declared = Start

MainDeclares ==
    /\ Top.via = "main"
    /\ \E name \in Packages : ReadPackage(name) \/ ReadNotedPackage(name)

DeclaredNext ==
    /\ Next
    /\ declared' = IF MainDeclares THEN Written'[Len(Written')].package
                                   ELSE declared

DeclaredSpec == DeclaredInit /\ [][DeclaredNext]_<<vars, declared>>

\* "Plugin-loaded packages restore the importing translation unit's package
\* context [...] so imported Package declarations do not accidentally retag
\* following user code" (docs/CLASSES_INHERITANCE_LIFECYCLE.md): text of the
\* file being compiled is in the package that file declared last
\* (process_text, process_plugswitch).
FollowingCodeKeepsPackage ==
    [][(ReadText /\ Top.via = "main")
           => PackageAt(Written, Len(Written) + 1) = declared]_<<vars, declared>>
=============================================================================
