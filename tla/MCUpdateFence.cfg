\* Two updates, so that one can find what another left behind, a request that comes
\* before, during or after a fence, and one hostd command.
SPECIFICATION FenceSpec
CONSTANTS
  Updates = {o1, o2}
  Requests = {r1}
  Mutations = {h1}
  NoUpdate = NoUpdate
  Stall = FALSE
  MaxDeaths = 1
 
PROPERTIES DrainAcknowledged Resumes
