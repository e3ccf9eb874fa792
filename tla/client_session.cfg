\* Three requests of the retail client, a fourth one being QUIT: listings of up to
\* four rows of which three fit, two of them on a page.  Or six bytes of another
\* peer, into a buffer that holds three.
\* The session ends: MaxRequests and MaxForeign stop it, or a process does.
SPECIFICATION Spec
CONSTANTS
  pens = pens
  mugs = mugs
  Peers = {"retail", "foreign"}
  Categories = {pens, mugs}
  MaxRows = 4
  MaxRequests = 3
  ForeignBytes <- SomeBytes
  MaxForeign = 6
  MaxLine = 4
  MaxShown = 3
  MaxCategories = 1
  PageSize = 2
INVARIANTS TypeOK InStep RolesAgree CommandsAreLines PagesShowAll
PROPERTIES Answered WorkerReleased
CHECK_DEADLOCK FALSE
