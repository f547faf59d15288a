------------------------------ MODULE MCOntApp ------------------------------
(* OntApp on a small device: transactions and messages of at most three    *)
(* and two blocks, one header block of each kind, one path of each kind.   *)
EXTENDS OntApp, TLC

CONSTANTS known, unknown, broken, hidden,   \* blocks
          good, foreign, cut, none          \* paths

MCSymbols == {known, unknown, broken, hidden}

MCDeclared == known :> 2 @@ unknown :> 2 @@ broken :> 3 @@ hidden :> 1
MCVerdict  == known :> "PARSING_OK" @@ unknown :> "PARSING_TX_NOT_DEFINED" @@
              broken :> "PARSING_BYTECODE_WRONG" @@ hidden :> "PARSING_OK"
MCDisplayable == {known}

MCPaths       == {good, foreign, cut}
MCValidPrefix == {good}
MCCutPaths    == {cut}
MCDerivable   == {good, cut}
=============================================================================
