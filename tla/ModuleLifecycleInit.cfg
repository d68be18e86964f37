\* Nobody uses the devices while the module is loaded.
CONSTANTS
  Processes = {}
  Workers = {w1}
  MaxWorks = 0
  Nobody = Nobody
SPECIFICATION Spec
INVARIANT InitializedMeansReady
