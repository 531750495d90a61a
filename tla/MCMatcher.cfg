SPECIFICATION Spec
CONSTANTS
  Identities <- MCIdentities
  Versions = {"matchers", "generic"}
  ToLower <- MCToLower
  FSTypeEqual <- MCFSTypeEqual
INVARIANT RunMatcherMeetsContract
\* runMatcher returns (or panics) after finitely many steps.
CHECK_DEADLOCK FALSE
