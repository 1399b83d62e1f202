------------------------------ MODULE MatrixMC -------------------------------
(* Small instances of Matrix for TLC.                                      *)
EXTENDS Matrix

ThreeProfiles == <<"first-run", "seeded", "degraded">>
FiveRoutes == <<"library", "search", "first-run", "home", "quick">>

\* The second step of "quick" is one of several taps, as "library" has in
\* audits/product-010/matrix.toml.
FiveRecipes == [r \in Range(FiveRoutes) |->
    CASE r = "library" -> <<Input(<<"quick">>), Input(<<"activate">>)>>
      [] r = "search"  -> <<Input(<<"search">>), Text(TRUE)>>
      [] r = "quick"   -> <<Input(<<"quick">>), Input(<<"up", "up">>)>>
      [] OTHER         -> <<>>]

FiveExpectations == [r \in Range(FiveRoutes) |->
    CASE r = "search" -> {[screen |-> "search", query |-> TRUE]}
      [] r = "quick"  -> {p \in Places : p.screen \in QuickScreens}
      [] OTHER        -> {[screen |-> r, query |-> FALSE]}]

SixCells == {<<"first-run", "first-run">>, <<"first-run", "library">>,
             <<"seeded", "search">>, <<"seeded", "home">>, <<"seeded", "quick">>,
             <<"degraded", "home">>}

=============================================================================
