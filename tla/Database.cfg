SPECIFICATION Spec
CONSTANTS
  Ctl = {a, b}
  Spey = {s1}
  Nobody = nobody
  NumKeys = 2
  Preset = {1}
  Default = v1
  Values = {v1}
  Unset = unset
  Sizes = {32}
  Names = {r1}
  Users = {u1}
  Counter = {accepted}
  Missing = {blacklisted}
  MaxRounds = 1
INVARIANTS
  TypeOK
  NoDuplicates
PROPERTIES
  TablesKept
  SpeyGoesOn
CHECK_DEADLOCK FALSE
