SPECIFICATION Spec
CONSTANTS
  Senders = {alice}
  Probe = probe
  BadSender = badsender
  NoSender = nosender
  MaxRecipients = 1
  SettingsChoices <- Changing
INVARIANTS
  RefusalPendingOrTold
  RefusalCodeStands
