\* three slots, of which the last may hold a thread, and two resources of at
\* most one unit: needs can block each other crosswise
CONSTANTS
  NPROC = 3
  BANKER_RES_MAX = 2
  MaxTotal = 1
  ThreadSlots <- LastSlot
SPECIFICATION Spec
INVARIANTS WithinClaim Conserved NothingLeftBehind SafetyCheckExact
PROPERTIES GrantsAreSafe OnlyClaimsEndanger
