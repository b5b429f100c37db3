--------------------------- MODULE MCTaskContract ---------------------------
EXTENDS TaskContract, TLC

Serving(p, v, o) == [probe |-> p, version |-> v, operations |-> o]

\* A contract every configuration accepts, one none accepts, and one that
\* only the lenient configurations accept.
MCContracts == {Serving("answered", "supported", "all"),
                Serving("answered", "supported", "some"),
                Serving("missing", "none", "unlisted")}

Section(e, f, l, c) == [enabled |-> e, enforce |-> f, allowLegacy |-> l,
                        failClosed |-> c]

\* The defaults, the strict section, and the gate switched off.
MCConfigs == {Section(TRUE, FALSE, TRUE, FALSE), Section(TRUE, TRUE, FALSE, TRUE),
              Section(FALSE, FALSE, TRUE, FALSE)}

CheckSymmetry == Permutations(Checks)
=============================================================================
