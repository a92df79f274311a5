SPECIFICATION Spec
CONSTANTS
  Requests = {i1, i2}
  Subjects = {admin, guest}
  Admins = {admin}
  Nobody = Nobody
  Endpoints <- AuthedEndpoints
  Burst = 1
  MaxRefills = 1
SYMMETRY ChainSymmetry
INVARIANT
  RouteLabelled
