------------------------------ MODULE MCDriver ------------------------------
(* Command lines to run the model of Driver.tla with. *)
EXTENDS Driver

MCDashed == {"-fsafe-c", "-fsafe-c=warn", "-fno-safe-c", "-emit=mir", "-emit=obj", "-h",
             "-o", "-D", "-DN", "--explain", "-x"}
MCEmits == {"-emit=tokens", "-emit=pp-tokens", "-emit=ast", "-emit=hir", "-emit=asm"}
MCAttached == {"-Idir", "-DN", "-std=c17"}
MCAllDashed == Known \cup {"-x"}
MCWords == MCDashed \cup {"a.c", "N", "gone.c", "E0001"}

\* Any few words, one input in every mode, and two or three inputs in each.
MCCommandLines ==
  UNION {[1 .. n -> MCWords] : n \in 0 .. 3}
  \cup {<<e, "a.c", i>> : e \in MCEmits, i \in {"b.c", "gone.c"}}
  \cup {<<s, f, g>> \o rest : s \in DOMAIN SafeCFlags, f \in {"a.c", "gone.c"},
                              g \in {"a.c", "b.c", "gone.c"}, rest \in {<<>>, <<"-emit=mir">>}}
  \cup {<<"-fsafe-c", "-emit=obj", "a.c", "-fsafe-c=warn", "b.c">>,
        <<"-o", "-o", "-o", "a.c", "-I", "b.c">>, <<"-D", "N", "-D", "-D", "a.c">>,
        <<"--json-diagnostics", "-Idir", "-emit=llvm", "a.c">>}

=============================================================================
