SPECIFICATION Spec
CONSTANTS
  ann = ann bob = bob
  User = {ann, bob}
  Manager = ann
  Handler = {h1, h2}
  Invitee <- Invited
  MaxOffers = 2
  Nobody = Nobody
SYMMETRY Handlers
INVARIANTS AccessWasGranted RevocationIsFinal AcceptedTookEffect
PROPERTIES RemovedStaysOut KeepsConsent
CHECK_DEADLOCK FALSE
