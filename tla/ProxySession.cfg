SPECIFICATION FairSpec
CONSTANTS
  s1 = s1
  a = a
  b = b
  page = page
  index = index
  None = None
  Session <- OneSession
  Origin <- Origins
  Host <- Hosts
  File <- Files
  Request <- Requests
  Response <- Responses
  MaxLen = 2
  MaxSize = 4
INVARIANTS TypeOK RightAnswer CacheWhole InStep
PROPERTIES Told
