\* The directives are after the hash: an agent verifies with changed ones.
SPECIFICATION DnaSpec
CONSTANTS
    Roles <- MCRoles
    Patterns = {q1}
    MaxPatterns = 2
    MaxDecay = 2
INVARIANT DirectivesSealed
