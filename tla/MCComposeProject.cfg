SPECIFICATION Spec
CONSTANTS
  Service = {web, db, worker, model}
  Provider = {model}
SYMMETRY ServiceSymmetry

  
PROPERTIES
  BodiesKeepTheirWord
