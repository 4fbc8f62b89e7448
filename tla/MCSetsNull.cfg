SPECIFICATION SpecCollections
CONSTANTS
    Elements = {a, b}
    SizeModulus = 5
    Nothing = null
    Keys <- MCKeys
    Hash <- MCKeyHash
    Values = {"v", "w"}
    CommonValue = "v"
    Members <- MCMembers
    MemberHash <- MCMemberHash
    BlockBits = {1, 2}
    Entries <- MCEntries
    Zero <- MCZero
    Long <- MCLong
    FreeLength = 3
    MaxLength <- MCMaxLength
    MaxChunk = 5
INVARIANTS
    EmptySetIsArgument
