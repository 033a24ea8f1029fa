SPECIFICATION Spec
CONSTANTS
  Senders = {alice}
  Probe = probe
  BadSender = badsender
  NoSender = nosender
  MaxRecipients = 2
  SettingsChoices <- Changing
INVARIANT
  BlacklistedRejected
