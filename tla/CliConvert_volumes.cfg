SPECIFICATION Spec

CONSTANTS
  Procs = {c1, c2, c3}
  Foreign = Foreign
  Nobody = Nobody
  Volumes = {TRUE, FALSE}

SYMMETRY Symmetry

INVARIANTS
  TypeOK
  FragmentIsTemporary
  ReportedIsPublished
PROPERTY
  OutputPreservedPlain

\* Every command ends.
CHECK_DEADLOCK FALSE
