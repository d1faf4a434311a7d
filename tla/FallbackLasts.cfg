SPECIFICATION RetrySpec
CONSTANTS
  LlmCalls = {m1, m2}
  Background = {}
  Discriminates = TRUE
  FallbackAfter = 2
  MaxBackoff = 2
  TotalCap = 3
PROPERTIES FallbackLasts
CHECK_DEADLOCK FALSE
