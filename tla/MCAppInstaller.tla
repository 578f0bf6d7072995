--------------------------- MODULE MCAppInstaller ---------------------------
EXTENDS AppInstaller, TLC
CONSTANTS a1, a2

\* The second version is a later release.
TwoReleases == <<1, 2>>

\* The applications differ in name only.
Symmetry == Permutations(Apps)

\* To keep the run short the later release is not there at the start: it comes
\* by a job.
MCInit == Init /\ \A a \in Apps : disk.dest[a].ver < MaxVersion
MCSpec == MCInit /\ [][Next]_vars
=============================================================================
