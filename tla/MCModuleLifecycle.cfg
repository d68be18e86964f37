\* Two processes for the four devices, two workers, two work items.
CONSTANTS
  Processes = {p1, p2}
  Workers = {w1, w2}
  MaxWorks = 2
  Nobody = Nobody
SPECIFICATION FairSpec
INVARIANTS TypeOK OpenMeansSetUp WorkersHaveCallbacks UnloadReturnsAll
PROPERTY UnloadEnds
