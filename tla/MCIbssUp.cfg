CONSTANTS
    s1 = s1
    s2 = s2
    s3 = s3
    Station = {s1, s2, s3}
    NBytes = 2
    Own <- Crossed
SPECIFICATION FairSpec
PROPERTIES MergesUpwards
