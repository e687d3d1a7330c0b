SPECIFICATION Both
CONSTANTS
  v0 = v0
  v1 = v1
  max_queue = max_queue
  model_source_dir = model_source_dir
  A = A
  a = a
  B = B
  Numbers = {max_queue}
  Texts = {model_source_dir}
  Values = {v0, v1}
  Default = v0
  Names = {A, a, B}
  Lower <- MCLower
  Envs <- MCEnvs
  Files <- MCFiles
  plain = plain
  adds = adds
  gets = gets
  getsAndAdds = getsAndAdds
  Tools <- MCTools
  Mutating = {adds, getsAndAdds}
  Reading = {gets, getsAndAdds}
  KnownServer = FALSE
  Configs <- MCConfigs
  Edited <- MCEdited
  Offers <- MCOffers
INVARIANT ExposureFollowsRules
INVARIANT AskedIsApplied
INVARIANT NoBypass
