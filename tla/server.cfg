\* One token, one call and two edits of the token files, under every command line.
CONSTANTS
  Token = {t1}
  Req = {r1}
  Asked = {"list_sdc_devices", "list_users_and_roles", "apply_sdc_nat_write"}
  Edits = 2
  None = None
SPECIFICATION FairSpec
INVARIANTS IndInv AuthorityWasGiven RevocationTakesHold EvidenceFlushed
PROPERTIES ServingIsNotKilled ShutdownEnds
CHECK_DEADLOCK FALSE
